---- MODULE Spec2Model ----
(***************************************************************************)
(* A model of starknet-jsonrpc-codegen (src/src/main.rs): the name         *)
(* transforms, the flatten-only analyzer, type resolution, and the wire    *)
(* behaviour of the serializers and deserializers the renderer emits.      *)
(*                                                                         *)
(* Text is modelled as a sequence of one-character strings, so that the    *)
(* name transforms are computed character by character as the code does.   *)
(***************************************************************************)
EXTENDS Integers, Sequences, FiniteSets, TLC

VARIABLES
  nm_in, nm_once, nm_twice, nm_field, \* the name transforms: input, type name once and twice, field name
  nm_pc,
  ty, val, wire, res, op,             \* an emitted codec: type, value, payload, decode result
  doc, write_specs, profile, result,  \* a run of the generator: the two documents, profile,
  out, pc                             \* resolution, standard output

vars == << nm_in, nm_once, nm_twice, nm_field, nm_pc, ty, val, wire, res, op,
           doc, write_specs, profile, result, out, pc >>
names_vars == << nm_in, nm_once, nm_twice, nm_field, nm_pc >>
codec_vars == << ty, val, wire, res, op >>
run_vars == << doc, write_specs, profile, result, out, pc >>

(***************************************************************************)
(* Bounds of the model.                                                    *)
(***************************************************************************)
\* Longest generated name fed to the name transforms.
MaxNameLen == 3

(***************************************************************************)
(* Text helpers.                                                           *)
(***************************************************************************)
LowerLetters == <<"a","b","c","d","e","f","g","h","i","j","k","l","m",
                  "n","o","p","q","r","s","t","u","v","w","x","y","z">>
UpperLetters == <<"A","B","C","D","E","F","G","H","I","J","K","L","M",
                  "N","O","P","Q","R","S","T","U","V","W","X","Y","Z">>

\* char::to_ascii_uppercase: only a..z change.
to_ascii_uppercase(c) ==
  IF \E i \in 1..26 : LowerLetters[i] = c
    THEN UpperLetters[CHOOSE i \in 1..26 : LowerLetters[i] = c]
    ELSE c

\* char::to_ascii_lowercase: only A..Z change.
to_ascii_lowercase(c) ==
  IF \E i \in 1..26 : UpperLetters[i] = c
    THEN LowerLetters[CHOOSE i \in 1..26 : UpperLetters[i] = c]
    ELSE c

\* str::to_lowercase / str::to_ascii_lowercase on ASCII text.
to_lowercase(s) == [i \in 1..Len(s) |-> to_ascii_lowercase(s[i])]

\* Whether text s holds pat at (1-based) position i.
MatchesAt(s, pat, i) ==
  /\ i + Len(pat) - 1 <= Len(s)
  /\ \A k \in 1..Len(pat) : s[i + k - 1] = pat[k]

\* str::replace: every non-overlapping match, left to right.
RECURSIVE ReplaceFrom(_, _, _, _)
ReplaceFrom(s, pat, to, i) ==
  IF i > Len(s) THEN <<>>
  ELSE IF MatchesAt(s, pat, i)
    THEN to \o ReplaceFrom(s, pat, to, i + Len(pat))
    ELSE <<s[i]>> \o ReplaceFrom(s, pat, to, i + 1)

Replace(s, pat, to) == ReplaceFrom(s, pat, to, 1)

\* str::contains for a single character.
ContainsChar(s, c) == \E i \in 1..Len(s) : s[i] = c

(***************************************************************************)
(* Names used by the code and by the properties.                           *)
(***************************************************************************)
N_BLOCK_HEADER == <<"B","L","O","C","K","_","H","E","A","D","E","R">>
N_COMMON_TXN_PROPERTIES == <<"C","O","M","M","O","N","_","T","X","N","_","P","R","O","P","E","R","T","I","E","S">>
N_TXN == <<"T","X","N">>
N_TXN_HASH == <<"T","X","N","_","H","A","S","H">>
N_FUNCTION_CALL == <<"F","U","N","C","T","I","O","N","_","C","A","L","L">>
N_PENDING_STATE_UPDATE == <<"P","E","N","D","I","N","G","_","S","T","A","T","E","_","U","P","D","A","T","E">>
N_TYPED_PARAMETER == <<"T","Y","P","E","D","_","P","A","R","A","M","E","T","E","R">>
N_Transaction == <<"T","r","a","n","s","a","c","t","i","o","n">>
N_FELT == <<"F","E","L","T">>
N_Txn == <<"T","x","n">>

(***************************************************************************)
(* to_pascal_case (main.rs 2080-2103).  Positions are 1-based here;        *)
(* last_underscore = 0 stands for None.                                    *)
(***************************************************************************)
RECURSIVE PascalFrom(_, _, _)
PascalFrom(name, ind, last_underscore) ==
  IF ind > Len(name) THEN <<>>
  ELSE IF name[ind] = "_" THEN PascalFrom(name, ind + 1, ind)
  ELSE LET uppercase == IF last_underscore # 0 THEN ind = last_underscore + 1
                                               ELSE ind = 1
       IN <<IF uppercase THEN to_ascii_uppercase(name[ind])
                         ELSE to_ascii_lowercase(name[ind])>>
          \o PascalFrom(name, ind + 1, last_underscore)

to_pascal_case(name) == PascalFrom(name, 1, 0)

\* The fixed rename table of to_starknet_rs_name (main.rs 2023-2043).
HardCodedRenames ==
  << << <<"C","o","m","m","o","n","T","r","a","n","s","a","c","t","i","o","n","P","r","o","p","e","r","t","i","e","s">>,
        <<"T","r","a","n","s","a","c","t","i","o","n","M","e","t","a">> >>,
     << <<"C","o","m","m","o","n","R","e","c","e","i","p","t","P","r","o","p","e","r","t","i","e","s">>,
        <<"T","r","a","n","s","a","c","t","i","o","n","R","e","c","e","i","p","t","M","e","t","a">> >>,
     << <<"I","n","v","o","k","e","T","r","a","n","s","a","c","t","i","o","n","R","e","c","e","i","p","t","P","r","o","p","e","r","t","i","e","s">>,
        <<"I","n","v","o","k","e","T","r","a","n","s","a","c","t","i","o","n","R","e","c","e","i","p","t","D","a","t","a">> >>,
     << <<"P","e","n","d","i","n","g","C","o","m","m","o","n","R","e","c","e","i","p","t","P","r","o","p","e","r","t","i","e","s">>,
        <<"P","e","n","d","i","n","g","T","r","a","n","s","a","c","t","i","o","n","R","e","c","e","i","p","t","M","e","t","a">> >>,
     << <<"S","i","e","r","r","a","C","o","n","t","r","a","c","t","C","l","a","s","s">>,
        <<"F","l","a","t","t","e","n","e","d","S","i","e","r","r","a","C","l","a","s","s">> >>,
     << <<"L","e","g","a","c","y","C","o","n","t","r","a","c","t","C","l","a","s","s">>,
        <<"C","o","m","p","r","e","s","s","e","d","L","e","g","a","c","y","C","o","n","t","r","a","c","t","C","l","a","s","s">> >>,
     << <<"D","e","p","r","e","c","a","t","e","d","C","o","n","t","r","a","c","t","C","l","a","s","s">>,
        <<"C","o","m","p","r","e","s","s","e","d","L","e","g","a","c","y","C","o","n","t","r","a","c","t","C","l","a","s","s">> >>,
     << <<"C","o","n","t","r","a","c","t","A","b","i","E","n","t","r","y">>,
        <<"L","e","g","a","c","y","C","o","n","t","r","a","c","t","A","b","i","E","n","t","r","y">> >>,
     << <<"F","u","n","c","t","i","o","n","A","b","i","E","n","t","r","y">>,
        <<"L","e","g","a","c","y","F","u","n","c","t","i","o","n","A","b","i","E","n","t","r","y">> >>,
     << <<"E","v","e","n","t","A","b","i","E","n","t","r","y">>,
        <<"L","e","g","a","c","y","E","v","e","n","t","A","b","i","E","n","t","r","y">> >>,
     << <<"S","t","r","u","c","t","A","b","i","E","n","t","r","y">>,
        <<"L","e","g","a","c","y","S","t","r","u","c","t","A","b","i","E","n","t","r","y">> >>,
     << <<"F","u","n","c","t","i","o","n","A","b","i","T","y","p","e">>,
        <<"L","e","g","a","c","y","F","u","n","c","t","i","o","n","A","b","i","T","y","p","e">> >>,
     << <<"E","v","e","n","t","A","b","i","T","y","p","e">>,
        <<"L","e","g","a","c","y","E","v","e","n","t","A","b","i","T","y","p","e">> >>,
     << <<"S","t","r","u","c","t","A","b","i","T","y","p","e">>,
        <<"L","e","g","a","c","y","S","t","r","u","c","t","A","b","i","T","y","p","e">> >>,
     << <<"S","t","r","u","c","t","M","e","m","b","e","r">>,
        <<"L","e","g","a","c","y","S","t","r","u","c","t","M","e","m","b","e","r">> >>,
     << <<"T","y","p","e","d","P","a","r","a","m","e","t","e","r">>,
        <<"L","e","g","a","c","y","T","y","p","e","d","P","a","r","a","m","e","t","e","r">> >>,
     << <<"D","e","p","r","e","c","a","t","e","d","E","n","t","r","y","P","o","i","n","t","s","B","y","T","y","p","e">>,
        <<"L","e","g","a","c","y","E","n","t","r","y","P","o","i","n","t","s","B","y","T","y","p","e">> >>,
     << <<"D","e","p","r","e","c","a","t","e","d","C","a","i","r","o","E","n","t","r","y","P","o","i","n","t">>,
        <<"L","e","g","a","c","y","C","o","n","t","r","a","c","t","E","n","t","r","y","P","o","i","n","t">> >> >>

\* A plausible slip: the Txn expansion applied before the case transform.
to_starknet_rs_name_ReplaceFirst(name) ==
  LET n == to_pascal_case(Replace(name, N_Txn, N_Transaction))
  IN IF \E i \in 1..Len(HardCodedRenames) : HardCodedRenames[i][1] = n
       THEN HardCodedRenames[CHOOSE i \in 1..Len(HardCodedRenames) :
                               HardCodedRenames[i][1] = n][2]
       ELSE n

\* to_starknet_rs_name (main.rs 2019-2044).
to_starknet_rs_name(name) ==
  LET n == Replace(to_pascal_case(name), N_Txn, N_Transaction)
  IN IF \E i \in 1..Len(HardCodedRenames) : HardCodedRenames[i][1] = n
       THEN HardCodedRenames[CHOOSE i \in 1..Len(HardCodedRenames) :
                               HardCodedRenames[i][1] = n][2]
       ELSE n

(***************************************************************************)
(* Options, results, field records.                                        *)
(***************************************************************************)
None == [some |-> FALSE]
Some(x) == [some |-> TRUE, v |-> x]

Ok(x) == [ok |-> TRUE, v |-> x, err |-> ""]
Err(msg) == [ok |-> FALSE, v |-> <<>>, err |-> msg]

T_String == <<"S","t","r","i","n","g">>
T_u64 == <<"u","6","4">>
T_bool == <<"b","o","o","l">>
T_OptionOpen == <<"O","p","t","i","o","n","<">>
T_VecOpen == <<"V","e","c","<">>
T_Close == <<">">>

\* format!("Option<{}>", t) and format!("Vec<{}>", t).
OptionOf(t) == T_OptionOpen \o t \o T_Close
VecOf(t) == T_VecOpen \o t \o T_Close

\* struct RustField (main.rs 122-133); documentation text is not modelled.
RustField(name, type_name, optional, fixed) ==
  [ name |-> name, optional |-> optional, fixed |-> fixed, arc_wrap |-> FALSE,
    type_name |-> type_name, serde_rename |-> None, serde_faltten |-> FALSE,
    serializer |-> None ]

\* struct FixedField (main.rs 69-73): value is the literal the emitted code
\* compares with and writes, here the native value it denotes.
FixedField(name, value) == [name |-> name, value |-> value]

(***************************************************************************)
(* JSON values on the wire and native values in memory.  A JSON scalar is  *)
(* [t, v]; a native value is [ty, some, v] with ty its Rust type name.     *)
(***************************************************************************)
JNull == [t |-> "null", v |-> ""]
JStr(s) == [t |-> "str", v |-> s]
JNum(s) == [t |-> "num", v |-> s]
JBool(s) == [t |-> "bool", v |-> s]

JArray(elems) == [kind |-> "array", elems |-> elems, members |-> <<>>, sval |-> JNull]
JObject(members) == [kind |-> "object", elems |-> <<>>, members |-> members, sval |-> JNull]
JScalar(j) == [kind |-> "scalar", elems |-> <<>>, members |-> <<>>, sval |-> j]

Native(t, v) == [ty |-> t, some |-> TRUE, v |-> v]
NativeNone(t) == [ty |-> t, some |-> FALSE, v |-> ""]

IsOptionType(t) == Len(t) > Len(T_OptionOpen) /\ MatchesAt(t, T_OptionOpen, 1)
InnerType(t) == SubSeq(t, Len(T_OptionOpen) + 1, Len(t) - 1)

\* The JSON type a plain Rust type deserializes from.
JsonTypeOf(t) ==
  CASE t = T_String -> "str"
    [] t = T_u64 -> "num"
    [] t = T_bool -> "bool"
    [] OTHER -> "unsupported"

\* serde_json::from_value::<T>: a value of the wrong JSON type is an error;
\* for Option<T>, null is None.
FromValueAs(t, j) ==
  IF IsOptionType(t)
    THEN IF j = JNull THEN Ok(NativeNone(t))
         ELSE IF j.t = JsonTypeOf(InnerType(t)) THEN Ok(Native(t, j.v))
         ELSE Err("invalid type")
    ELSE IF j.t = JsonTypeOf(t) THEN Ok(Native(t, j.v))
         ELSE Err("invalid type")

\* Serialization of a native value.
ToValue(n) ==
  IF ~n.some THEN JNull
  ELSE LET t == IF IsOptionType(n.ty) THEN InnerType(n.ty) ELSE n.ty
       IN [t |-> JsonTypeOf(t), v |-> n.v]

\* RustField::def_lines (main.rs 720-782): the member a field contributes to
\* an emitted struct: its name, its type, the wire key (the serde rename if
\* any) and whether a None is left out when serializing.
def_lines(field, serde_attrs, is_ref, no_arc_wrapping) ==
  [ member |-> field.name,
    type_name |-> field.type_name,
    key |-> IF serde_attrs /\ field.serde_rename.some
              THEN field.serde_rename.v ELSE field.name,
    skip_if_none |-> serde_attrs /\ field.optional,
    by_ref |-> is_ref,
    arc |-> field.arc_wrap /\ ~is_ref /\ ~no_arc_wrapping ]

\* The positions of the fields that are not fixed, in order.
RECURSIVE NotFixedFrom(_, _)
NotFixedFrom(fields, i) ==
  IF i > Len(fields) THEN <<>>
  ELSE (IF fields[i].fixed.some THEN <<>> ELSE <<i>>) \o NotFixedFrom(fields, i + 1)

NotFixed(fields) == NotFixedFrom(fields, 1)

\* struct RustStruct (main.rs 99-104).
RustStruct(serde_as_array, extra_ref_type, fields) ==
  [ kind |-> "Struct", serde_as_array |-> serde_as_array,
    extra_ref_type |-> extra_ref_type, fields |-> fields ]

\* RustStruct::need_custom_serde (main.rs 322-324).
StructNeedCustomSerde(st) ==
  st.serde_as_array \/ \E i \in 1..Len(st.fields) : st.fields[i].fixed.some

\* RustStruct::render_stdout (main.rs 268-298): the members of the emitted
\* struct definition.
StructMembers(st) ==
  LET keep == NotFixed(st.fields)
  IN [k \in 1..Len(keep) |->
        def_lines(st.fields[keep[k]], ~StructNeedCustomSerde(st), FALSE, FALSE)]

\* RustStruct::render_stdout (main.rs 299-313): the members of the emitted
\* borrowed view, <<>> when the struct has none.
RefMembers(st) ==
  IF ~st.extra_ref_type THEN <<>>
  ELSE LET keep == NotFixed(st.fields)
       IN [k \in 1..Len(keep) |-> def_lines(st.fields[keep[k]], FALSE, TRUE, FALSE)]

MemberNames(members) == {members[k].member : k \in 1..Len(members)}

(***************************************************************************)
(* The emitted positional-array codec (main.rs 351-408, 462-541).          *)
(***************************************************************************)
\* A plausible slip: the fields are pushed last to first.
ArraySerialize_Reversed(st, self) ==
  JArray([i \in 1..Len(st.fields) |->
            ToValue(self[st.fields[Len(st.fields) + 1 - i].name])])

\* render_impl_array_serialize_stdout_inner: one element per field, pushed
\* in declaration order (main.rs 382-401).
ArraySerialize(st, self) ==
  JArray([i \in 1..Len(st.fields) |-> ToValue(self[st.fields[i].name])])

\* A plausible slip: the decoder pops for field 0 first.
ArrayPopOrder_Forward(fields) == [k \in 1..Len(fields) |-> k]

\* The order in which the emitted decoder pops: enumerate().rev()
\* (main.rs 500), as 1-based field positions.
ArrayPopOrder(fields) == [k \in 1..Len(fields) |-> Len(fields) + 1 - k]

\* The emitted pops (main.rs 500-510): each takes the last element left, an
\* empty vector is "invalid sequence length", an element of the wrong type
\* "failed to parse element".  parsed maps a field position to its value.
RECURSIVE PopFields(_, _, _, _, _)
PopFields(fields, order, k, elements, parsed) ==
  IF k > Len(order) THEN Ok(parsed)
  ELSE IF elements = <<>> THEN Err("invalid sequence length")
  ELSE LET ind == order[k]
           r == FromValueAs(def_lines(fields[ind], TRUE, FALSE, FALSE).type_name,
                            elements[Len(elements)])
       IN IF ~r.ok THEN Err("failed to parse element")
          ELSE PopFields(fields, order, k + 1,
                         SubSeq(elements, 1, Len(elements) - 1),
                         [j \in DOMAIN parsed \cup {ind} |->
                            IF j = ind THEN r.v ELSE parsed[j]])

\* Deserialization of a JSON object into an emitted struct with the given
\* members: a key that is absent is None for an Option member and an error
\* for any other; unknown keys are ignored.
ObjectDeserialize(members, temp) ==
  IF temp.kind # "object" THEN Err("invalid type")
  ELSE LET parse(m) ==
             IF m.key \in DOMAIN temp.members
               THEN FromValueAs(m.type_name, temp.members[m.key])
               ELSE IF IsOptionType(m.type_name) THEN Ok(NativeNone(m.type_name))
               ELSE Err("missing field")
       IN IF \A k \in 1..Len(members) : parse(members[k]).ok
            THEN Ok([n \in MemberNames(members) |->
                       parse(members[CHOOSE k \in 1..Len(members) :
                                       members[k].member = n]).v])
            ELSE Err("invalid object")

\* render_impl_array_deserialize_stdout (main.rs 462-541).
ArrayDeserialize(st, temp) ==
  LET fields == st.fields
      AsObject == [i \in 1..Len(fields) |-> def_lines(fields[i], TRUE, FALSE, FALSE)]
  IN IF temp.kind = "array"
       THEN LET r == PopFields(fields, ArrayPopOrder(fields), 1, temp.elems, <<>>)
            IN IF r.ok
                 THEN Ok([n \in {fields[i].name : i \in 1..Len(fields)} |->
                            r.v[CHOOSE i \in 1..Len(fields) : fields[i].name = n]])
                 ELSE r
       ELSE LET object == ObjectDeserialize(AsObject, temp)
            IN IF object.ok THEN object
               ELSE Err("invalid sequence length")

(***************************************************************************)
(* The emitted tagged-object codec (main.rs 410-460, 543-621).             *)
(***************************************************************************)
\* A plausible slip: the encoder takes every field from the value.
TaggedFieldValue_FromSelf(field, self) ==
  IF field.name \in DOMAIN self THEN self[field.name] ELSE NativeNone(field.type_name)

\* What the emitted encoder puts in a member of Tagged (main.rs 437-452):
\* the literal for a fixed field, the struct's own member otherwise.
TaggedFieldValue(field, self) ==
  IF field.fixed.some THEN field.fixed.v.value ELSE self[field.name]

\* render_impl_tagged_serialize_stdout (main.rs 410-460).
TaggedSerialize(st, self) ==
  LET fields == st.fields
      Tagged == [i \in 1..Len(fields) |-> def_lines(fields[i], TRUE, TRUE, FALSE)]
      tagged == [i \in 1..Len(fields) |-> TaggedFieldValue(fields[i], self)]
      written == {i \in 1..Len(fields) : ~(Tagged[i].skip_if_none /\ ~tagged[i].some)}
  IN JObject([key \in {Tagged[i].key : i \in written} |->
                ToValue(tagged[CHOOSE i \in written : Tagged[i].key = key])])

\* A member of the decoder's Tagged (main.rs 561-576): a fixed field is
\* declared optional, with type Option<...>.
TaggedMember(field) ==
  IF field.fixed.some
    THEN def_lines([field EXCEPT !.optional = TRUE, !.fixed = None,
                                 !.arc_wrap = FALSE,
                                 !.type_name = OptionOf(field.type_name)],
                   TRUE, FALSE, TRUE)
    ELSE def_lines(field, TRUE, FALSE, TRUE)

\* The check emitted for a fixed field (main.rs 588-601).
FixedFieldMismatch(field, tagged) ==
  /\ field.fixed.some
  /\ tagged[field.fixed.v.name].some
  /\ tagged[field.fixed.v.name].v # field.fixed.v.value.v

\* render_impl_tagged_deserialize_stdout (main.rs 543-621).
TaggedDeserialize(st, temp) ==
  LET fields == st.fields
      Tagged == [i \in 1..Len(fields) |-> TaggedMember(fields[i])]
      tagged == ObjectDeserialize(Tagged, temp)
  IN IF ~tagged.ok THEN tagged
     ELSE IF \E i \in 1..Len(fields) : FixedFieldMismatch(fields[i], tagged.v)
       THEN Err("invalid fixed value")
       ELSE LET keep == NotFixed(fields)
            IN Ok([n \in {fields[keep[k]].name : k \in 1..Len(keep)} |->
                     tagged.v[n]])

\* RustStruct::render_impl_serialize_stdout (main.rs 326-332).
StructSerialize(st, self) ==
  IF st.serde_as_array THEN ArraySerialize(st, self) ELSE TaggedSerialize(st, self)

\* RustStruct::render_impl_deserialize_stdout (main.rs 334-340).
StructDeserialize(st, temp) ==
  IF st.serde_as_array THEN ArrayDeserialize(st, temp) ELSE TaggedDeserialize(st, temp)

\* struct RustUnit (main.rs 117-120).
RustUnit(serde_as_array) == [kind |-> "Unit", serde_as_array |-> serde_as_array]

\* RustUnit::render_impl_serialize_stdout (main.rs 689-702): an empty sequence.
UnitSerialize(self) == JArray(<<>>)

\* A plausible slip: the vector is read and its length is not looked at.
UnitDeserialize_NoLengthCheck(temp) ==
  IF temp.kind # "array" \/ \E i \in 1..Len(temp.elems) : temp.elems[i] # JNull
    THEN Err("invalid type")
  ELSE Ok(<<>>)

\* RustUnit::render_impl_deserialize_stdout (main.rs 704-716): a vector of
\* units is read, so the payload must be an array of nulls, and it must be
\* empty.
UnitDeserialize(temp) ==
  IF temp.kind # "array" \/ \E i \in 1..Len(temp.elems) : temp.elems[i] # JNull
    THEN Err("invalid type")
  ELSE IF temp.elems # <<>> THEN Err("invalid sequence length")
  ELSE Ok(<<>>)

\* RustType::render_serde_stdout (main.rs 238-244): the codec of a type.
TypeSerialize(t, self) ==
  IF t.kind = "Unit" THEN UnitSerialize(self) ELSE StructSerialize(t, self)

TypeDeserialize(t, temp) ==
  IF t.kind = "Unit" THEN UnitDeserialize(temp) ELSE StructDeserialize(t, temp)

(***************************************************************************)
(* The emitted codecs at work: a type with a custom codec, a value of it   *)
(* built by the caller, a payload on the wire, the result of decoding.     *)
(***************************************************************************)
\* Most fields of an array-encoded struct.
MaxFields == 3
\* Most fields besides the fixed one of a struct with a fixed field.
MaxOther == 1
\* Longest array payload received.
MaxElems == 4

BaseTypes == {T_String, T_u64, T_bool}
FieldName(i) == <<LowerLetters[i]>>

N_type == <<"t","y","p","e">>
N_version == <<"v","e","r","s","i","o","n">>

\* The values a member of the given type can hold.
NativeValues(t) ==
  CASE t = T_String -> {Native(t, "x"), Native(t, "y")}
    [] t = T_u64 -> {Native(t, "1"), Native(t, "2")}
    [] t = T_bool -> {Native(t, "true"), Native(t, "false")}
    [] OTHER -> {NativeNone(t), Native(t, "x")}

\* Request structs as resolve_types builds them (main.rs 1574-1578):
\* array-encoded, with a borrowed view, no fixed field.
ArrayStructs ==
  UNION { { RustStruct(TRUE, TRUE,
                       [i \in 1..n |-> RustField(FieldName(i), ts[i], FALSE, None)]) :
            ts \in [1..n -> BaseTypes] } : n \in 1..MaxFields }

\* Fixed fields as the profiles configure them (main.rs 842-1323): a text
\* "type" and a numeric "version".
FixedFields ==
  { RustField(N_type, T_String, FALSE,
              Some(FixedField(N_type, Native(T_String, "DECLARE")))),
    RustField(N_version, T_u64, FALSE,
              Some(FixedField(N_version, Native(T_u64, "1")))) }

\* Model structs with a fixed field (main.rs 1502-1507): tagged-object
\* encoded, the fixed field at any position among the others.
TaggedStructs ==
  UNION { { RustStruct(FALSE, FALSE,
                       [i \in 1..(n + 1) |->
                          IF i = p THEN fx
                          ELSE LET j == IF i < p THEN i ELSE i - 1
                               IN RustField(FieldName(j), ts[j], opt[j], None)]) :
            ts \in [1..n -> BaseTypes \cup {OptionOf(T_String)}],
            opt \in {[j \in 1..n |-> FALSE]},
            p \in 1..(n + 1), fx \in FixedFields } : n \in 0..MaxOther }

CodecTypes == ArrayStructs \cup TaggedStructs \cup {RustUnit(TRUE)}

\* The values of a type: one native value per member of its definition.
CodecValues(t) ==
  IF t.kind = "Unit" THEN {<<>>}
  ELSE LET members == StructMembers(t)
           universe == UNION {NativeValues(members[k].type_name) : k \in 1..Len(members)}
       IN { f \in [MemberNames(members) -> universe] :
              \A k \in 1..Len(members) : f[members[k].member].ty = members[k].type_name }

ElemScalars == {JStr("x"), JStr("y"), JNum("1"), JBool("true")}
TagScalars == {JNull, JStr("DECLARE"), JStr("x"), JNum("1"), JNum("2"), JBool("true")}

WireKeys(t) ==
  IF t.kind = "Unit" THEN {}
  ELSE {def_lines(t.fields[i], TRUE, FALSE, FALSE).key : i \in 1..Len(t.fields)}

\* What a peer may send: any array, any object over the type's keys, or a
\* bare scalar.  A type with the tagged-object codec is sent objects only.
Payloads(t) ==
  LET scalars == IF t.serde_as_array THEN ElemScalars \cup {JNull} ELSE TagScalars
      elems == IF t.kind = "Unit" THEN {JNull, JStr("x")} ELSE ElemScalars
      objects == UNION { {JObject(f) : f \in [K -> scalars \ (IF t.serde_as_array THEN {JNull} ELSE {})]} :
                         K \in SUBSET WireKeys(t) }
      arrays == UNION { {JArray(s) : s \in [1..n -> elems]} : n \in 0..MaxElems }
  IN IF t.serde_as_array THEN arrays \cup objects \cup {JScalar(JStr("x")), JScalar(JNull)}
     ELSE objects

\* The named-parameter form of a value: an object keyed by the field names.
NamedObject(t, self) == JObject([key \in DOMAIN self |-> ToValue(self[key])])

NoValue == <<>>
NoWire == JScalar(JNull)
NoResult == Err("")

CodecInit ==
  /\ ty \in CodecTypes
  /\ val = NoValue /\ wire = NoWire /\ res = NoResult /\ op = "init"
  /\ nm_in = <<>> /\ nm_once = <<>> /\ nm_twice = <<>> /\ nm_field = <<>> /\ nm_pc = "idle"
  /\ doc = <<>> /\ write_specs = <<>> /\ profile = <<>> /\ result = <<>> /\ out = <<>>
  /\ pc = "idle"

\* The caller builds a value of the type.
Construct ==
  /\ op = "init"
  /\ val' \in CodecValues(ty)
  /\ op' = "constructed"
  /\ UNCHANGED << ty, wire, res >>
  /\ UNCHANGED << names_vars, run_vars >>

\* The emitted Serialize.
Serialize ==
  /\ op = "constructed"
  /\ wire' = TypeSerialize(ty, val)
  /\ op' = "serialized"
  /\ UNCHANGED << ty, val, res >>
  /\ UNCHANGED << names_vars, run_vars >>

\* A client sends the value by name instead.
SendNamed ==
  /\ op = "constructed"
  /\ ty.serde_as_array
  /\ wire' = NamedObject(ty, val)
  /\ op' = "named"
  /\ UNCHANGED << ty, val, res >>
  /\ UNCHANGED << names_vars, run_vars >>

\* A peer sends a payload of its own.
Receive ==
  /\ op = "init"
  /\ wire' \in Payloads(ty)
  /\ op' = "received"
  /\ UNCHANGED << ty, val, res >>
  /\ UNCHANGED << names_vars, run_vars >>

\* The emitted Deserialize.
Deserialize ==
  /\ op \in {"serialized", "named", "received"}
  /\ res' = TypeDeserialize(ty, wire)
  /\ op' = CASE op = "serialized" -> "decoded_serialized"
             [] op = "named" -> "decoded_named"
             [] op = "received" -> "decoded_received"
  /\ UNCHANGED << ty, val, wire >>
  /\ UNCHANGED << names_vars, run_vars >>

CodecNext ==
  \/ Construct
  \/ Serialize
  \/ SendNamed
  \/ Receive
  \/ Deserialize

SpecCodec == CodecInit /\ [][CodecNext]_vars

(***************************************************************************)
(* Properties of the emitted codecs.                                       *)
(***************************************************************************)
IsArrayStruct(t) == t.kind = "Struct" /\ t.serde_as_array
IsTaggedStruct(t) == t.kind = "Struct" /\ ~t.serde_as_array

\* C1: the decoder of an array-encoded struct with N fields returns a decode
\* error for every array whose length is not N, shorter or longer.
C1_WrongLengthRejected ==
  ( /\ IsArrayStruct(ty)
    /\ op = "decoded_received"
    /\ wire.kind = "array"
    /\ Len(wire.elems) # Len(ty.fields) )
  => ~res.ok

\* C2: for an array of exactly N elements the decoder, which pops from the
\* tail, gives element i to the field declared at position i: it succeeds
\* exactly when every element has its field's type, and then every field
\* holds its own element.
C2_NoTransposition ==
  ( /\ IsArrayStruct(ty)
    /\ op = "decoded_received"
    /\ wire.kind = "array"
    /\ Len(wire.elems) = Len(ty.fields) )
  => /\ res.ok <=> \A i \in 1..Len(ty.fields) :
                     FromValueAs(ty.fields[i].type_name, wire.elems[i]).ok
     /\ res.ok => \A i \in 1..Len(ty.fields) :
                    res.v[ty.fields[i].name] =
                      FromValueAs(ty.fields[i].type_name, wire.elems[i]).v

\* A text, a number and a boolean field decoded from an array of three.
C2_Witness ==
  /\ IsArrayStruct(ty)
  /\ op = "decoded_received"
  /\ wire = JArray(<<JStr("x"), JNum("1"), JBool("true")>>)
  /\ Len(ty.fields) = 3
  /\ ty.fields[1].type_name = T_String
  /\ ty.fields[2].type_name = T_u64
  /\ ty.fields[3].type_name = T_bool
  /\ res.ok
  /\ res.v[FieldName(1)] = Native(T_String, "x")
  /\ res.v[FieldName(3)] = Native(T_bool, "true")

\* C3 as stated: for every array-encoded type, Unit included, decoding the
\* encoded array and decoding the object form both yield the value.
C3_RoundTripEveryType ==
  (ty.serde_as_array /\ op \in {"decoded_serialized", "decoded_named"})
  => res = Ok(val)

\* C3 amended: for every array-encoded struct, decoding the encoded array
\* and decoding the object keyed by the field names both yield the value;
\* a Unit round-trips through its (empty) array form.
C3_RoundTripStruct ==
  /\ (IsArrayStruct(ty) /\ op \in {"decoded_serialized", "decoded_named"})
       => res = Ok(val)
  /\ (ty.kind = "Unit" /\ op = "decoded_serialized") => res = Ok(val)

\* Two text fields with different values, sent by name and decoded.
C3_Witness ==
  /\ IsArrayStruct(ty)
  /\ op = "decoded_named"
  /\ Len(ty.fields) = 2
  /\ wire.kind = "object"
  /\ val[FieldName(1)] = Native(T_String, "x")
  /\ val[FieldName(2)] = Native(T_String, "y")
  /\ res = Ok(val)

\* The fixed field of a struct, and whether the rest of a payload is a
\* well-formed image of the other fields.
FixedOf(t) == t.fields[CHOOSE i \in 1..Len(t.fields) : t.fields[i].fixed.some]
HasFixed(t) == \E i \in 1..Len(t.fields) : t.fields[i].fixed.some
OthersWellFormed(t, payload) ==
  \A i \in 1..Len(t.fields) :
    ~t.fields[i].fixed.some =>
      LET m == def_lines(t.fields[i], TRUE, FALSE, TRUE)
      IN IF m.key \in DOMAIN payload.members
           THEN FromValueAs(m.type_name, payload.members[m.key]).ok
           ELSE IsOptionType(m.type_name)

\* C4: under tagged-object encoding a payload without the fixed field is
\* accepted, one with the configured literal is accepted, one with any other
\* value is rejected, whatever the (well-formed) other fields hold.
C4_FixedFieldChecked ==
  ( /\ IsTaggedStruct(ty) /\ HasFixed(ty)
    /\ op = "decoded_received"
    /\ wire.kind = "object"
    /\ OthersWellFormed(ty, wire) )
  => LET fx == FixedOf(ty)
     IN IF fx.name \notin DOMAIN wire.members THEN res.ok
        ELSE res.ok <=> wire.members[fx.name] = ToValue(fx.fixed.v.value)

\* C5: a fixed field is no member of the struct definition nor of its
\* borrowed view, the decoder never stores it, and the tagged-object encoder
\* always writes it with its literal.
C5_FixedNeverSettable ==
  ty.kind = "Struct" =>
    \A i \in 1..Len(ty.fields) :
      ty.fields[i].fixed.some =>
        /\ ty.fields[i].name \notin MemberNames(StructMembers(ty))
        /\ ty.fields[i].name \notin MemberNames(RefMembers(ty))
        /\ (op = "decoded_received" /\ res.ok) => ty.fields[i].name \notin DOMAIN res.v
        /\ (op \in {"serialized", "decoded_serialized"}) =>
             /\ ty.fields[i].name \in DOMAIN wire.members
             /\ wire.members[ty.fields[i].name] = ToValue(ty.fields[i].fixed.v.value)

\* A payload carrying the literal was decoded, and the value holds only the
\* other field.
C5_Witness ==
  /\ IsTaggedStruct(ty) /\ HasFixed(ty)
  /\ Len(ty.fields) = 2
  /\ op = "decoded_received"
  /\ FixedOf(ty).name \in DOMAIN wire.members
  /\ res.ok
  /\ DOMAIN res.v = {FieldName(1)}

(***************************************************************************)
(* The type-name transform applied once, and again to its own result.      *)
(***************************************************************************)
NameAlphabet == {"t", "X", "n", "b", "_"}

\* Names the transform is tried on: every text over the alphabet up to
\* MaxNameLen, and schema names of the embedded documents.
NameInputs ==
  UNION {[1..n -> NameAlphabet] : n \in 0..MaxNameLen}
    \cup {N_BLOCK_HEADER, N_COMMON_TXN_PROPERTIES, N_TXN, N_TXN_HASH,
          N_FUNCTION_CALL, N_TYPED_PARAMETER, N_FELT}

NamesInit ==
  /\ nm_in \in NameInputs
  /\ nm_once = <<>> /\ nm_twice = <<>> /\ nm_field = <<>> /\ nm_pc = "input"
  /\ ty = <<>> /\ val = NoValue /\ wire = NoWire /\ res = NoResult /\ op = "idle"
  /\ doc = <<>> /\ write_specs = <<>> /\ profile = <<>> /\ result = <<>> /\ out = <<>>
  /\ pc = "idle"

\* to_starknet_rs_name on a schema name.
ApplyName ==
  /\ nm_pc = "input"
  /\ nm_once' = to_starknet_rs_name(nm_in)
  /\ nm_pc' = "once"
  /\ UNCHANGED << nm_in, nm_twice, nm_field >>
  /\ UNCHANGED << codec_vars, run_vars >>

\* to_starknet_rs_name on an already transformed name.
ReapplyName ==
  /\ nm_pc = "once"
  /\ nm_twice' = to_starknet_rs_name(nm_once)
  /\ nm_pc' = "twice"
  /\ UNCHANGED << nm_in, nm_once, nm_field >>
  /\ UNCHANGED << codec_vars, run_vars >>

NamesNext ==
  \/ ApplyName
  \/ ReapplyName

SpecNames == NamesInit /\ [][NamesNext]_vars

\* C10 as stated: the type-name transform is idempotent for every name,
\* multi-word names and names hit by the rename table included.
C10_Idempotent == nm_pc = "twice" => nm_twice = nm_once

\* C10 amended: the type-name transform is idempotent for every name that
\* holds no underscore, that is for single-word names.
C10_IdempotentSingleWord ==
  (nm_pc = "twice" /\ ~ContainsChar(nm_in, "_")) => nm_twice = nm_once

\* TXN becomes Transaction, and Transaction stays.
C10_Witness ==
  /\ nm_pc = "twice"
  /\ nm_in = N_TXN
  /\ nm_once = N_Transaction
  /\ nm_twice = N_Transaction

(***************************************************************************)
(* The schema document (the parsed Specification) and the profile.         *)
(***************************************************************************)
N_ADDRESS == <<"A","D","D","R","E","S","S">>
N_STORAGE_KEY == <<"S","T","O","R","A","G","E","_","K","E","Y">>
N_BLOCK_HASH == <<"B","L","O","C","K","_","H","A","S","H">>
N_CHAIN_ID == <<"C","H","A","I","N","_","I","D">>
N_PROTOCOL_VERSION == <<"P","R","O","T","O","C","O","L","_","V","E","R","S","I","O","N">>
N_BLOCK_NUMBER == <<"B","L","O","C","K","_","N","U","M","B","E","R">>
N_NUM_AS_HEX == <<"N","U","M","_","A","S","_","H","E","X">>
N_ETH_ADDRESS == <<"E","T","H","_","A","D","D","R","E","S","S">>
N_SIGNATURE == <<"S","I","G","N","A","T","U","R","E">>
N_CONTRACT_ABI == <<"C","O","N","T","R","A","C","T","_","A","B","I">>
N_CONTRACT_ENTRY_POINT_LIST == <<"C","O","N","T","R","A","C","T","_","E","N","T","R","Y","_","P","O","I","N","T","_","L","I","S","T">>
N_LEGACY_CONTRACT_ENTRY_POINT_LIST == <<"L","E","G","A","C","Y","_","C","O","N","T","R","A","C","T","_","E","N","T","R","Y","_","P","O","I","N","T","_","L","I","S","T">>
N_TXN_TYPE == <<"T","X","N","_","T","Y","P","E">>
N_EVENT == <<"E","V","E","N","T">>
T_FieldElement == <<"F","i","e","l","d","E","l","e","m","e","n","t">>
T_UfeHex == <<"U","f","e","H","e","x">>
T_NumAsHex == <<"N","u","m","A","s","H","e","x">>
T_EthAddress == <<"E","t","h","A","d","d","r","e","s","s">>
T_LegacyContractAbiEntry == <<"L","e","g","a","c","y","C","o","n","t","r","a","c","t","A","b","i","E","n","t","r","y">>
T_ContractEntryPoint == <<"C","o","n","t","r","a","c","t","E","n","t","r","y","P","o","i","n","t">>
T_LegacyContractEntryPoint == <<"L","e","g","a","c","y","C","o","n","t","r","a","c","t","E","n","t","r","y","P","o","i","n","t">>
T_u8 == <<"u","8">>
T_base64 == <<"b","a","s","e","6","4">>
N_StarknetError == <<"S","t","a","r","k","n","e","t","E","r","r","o","r">>
N_Request == <<"R","e","q","u","e","s","t">>
N_starknet_ == <<"s","t","a","r","k","n","e","t","_">>

\* Schema nodes, as main.rs matches them (1687-1763).
SRef(n) == [kind |-> "Ref", name |-> n]
SOneOf(variants) == [kind |-> "OneOf", items |-> variants]
SAllOf(fragments) == [kind |-> "AllOf", items |-> fragments]
\* props is the ordered property map, a sequence of <<name, schema>>;
\* required is None or Some(set of names).
SObject(props, required) == [kind |-> "Object", props |-> props, required |-> required]
SArray(item) == [kind |-> "Array", item |-> item]
\* enum is None or Some(sequence of literals); description None or Some(text).
SString(enum, description) == [kind |-> "String", enum |-> enum, description |-> description]
SInteger == [kind |-> "Integer"]
SBoolean == [kind |-> "Boolean"]

\* specs.components.schemas.get(name) on the ordered map.
SchemaGet(specs, name) ==
  IF \E i \in 1..Len(specs.schemas) : specs.schemas[i][1] = name
    THEN Some(specs.schemas[CHOOSE i \in 1..Len(specs.schemas) :
                              specs.schemas[i][1] = name][2])
    ELSE None

\* str::contains for a text.
Contains(s, pat) == \E i \in 1..Len(s) : MatchesAt(s, pat, i)

\* struct RustFieldType (main.rs 142-146) and enum SerializerOverride
\* (main.rs 148-152).
RustFieldType(type_name, serializer) == [type_name |-> type_name, serializer |-> serializer]
Serde(codec) == [kind |-> "Serde", codec |-> codec]
SerdeAs(codec) == [kind |-> "SerdeAs", codec |-> codec]

\* An abort of the process (todo!, a stack overflow), as opposed to an Err.
Panic(msg) == [ok |-> FALSE, v |-> <<>>, err |-> msg, panic |-> TRUE]
Fail(msg) == [ok |-> FALSE, v |-> <<>>, err |-> msg, panic |-> FALSE]
Done(x) == [ok |-> TRUE, v |-> x, err |-> "", panic |-> FALSE]

\* get_field_type_override (main.rs 1945-1986).
get_field_type_override(type_name) ==
  CASE type_name \in {N_ADDRESS, N_STORAGE_KEY, N_TXN_HASH, N_FELT, N_BLOCK_HASH,
                      N_CHAIN_ID, N_PROTOCOL_VERSION} ->
         Some(RustFieldType(T_FieldElement, Some(SerdeAs(T_UfeHex))))
    [] type_name = N_BLOCK_NUMBER -> Some(RustFieldType(T_u64, None))
    [] type_name = N_NUM_AS_HEX -> Some(RustFieldType(T_u64, Some(SerdeAs(T_NumAsHex))))
    [] type_name = N_ETH_ADDRESS -> Some(RustFieldType(T_EthAddress, None))
    [] type_name = N_SIGNATURE ->
         Some(RustFieldType(VecOf(T_FieldElement), Some(SerdeAs(VecOf(T_UfeHex)))))
    [] type_name = N_CONTRACT_ABI ->
         Some(RustFieldType(VecOf(T_LegacyContractAbiEntry), None))
    [] type_name = N_CONTRACT_ENTRY_POINT_LIST ->
         Some(RustFieldType(VecOf(T_ContractEntryPoint), None))
    [] type_name = N_LEGACY_CONTRACT_ENTRY_POINT_LIST ->
         Some(RustFieldType(VecOf(T_LegacyContractEntryPoint), None))
    [] type_name = N_TXN_TYPE -> Some(RustFieldType(T_String, None))
    [] OTHER -> None

\* The field type of a reference to a defined schema (main.rs 1884-1890).
RefFieldType(name, override) ==
  IF override.some THEN override.v
  ELSE RustFieldType(to_starknet_rs_name(name), None)

\* A plausible slip: an item that has no type is taken for text.
ArrayFieldType_ItemErrorDropped(item_type) ==
  IF ~item_type.ok THEN Done(RustFieldType(VecOf(T_String), None))
  ELSE IF item_type.v.serializer.some /\ item_type.v.serializer.v.kind = "Serde"
    THEN Panic("Array wrapper for #[serde(with)] not implemented")
  ELSE Done(RustFieldType(
              VecOf(item_type.v.type_name),
              IF item_type.v.serializer.some
                THEN Some(SerdeAs(VecOf(item_type.v.serializer.v.codec)))
                ELSE None))

\* The field type of an array, given that of its items (main.rs 1898-1917).
ArrayFieldType(item_type) ==
  IF ~item_type.ok THEN item_type
  ELSE IF item_type.v.serializer.some /\ item_type.v.serializer.v.kind = "Serde"
    THEN Panic("Array wrapper for #[serde(with)] not implemented")
  ELSE Done(RustFieldType(
              VecOf(item_type.v.type_name),
              IF item_type.v.serializer.some
                THEN Some(SerdeAs(VecOf(item_type.v.serializer.v.codec)))
                ELSE None))

\* get_rust_type_for_field (main.rs 1875-1943).
RECURSIVE get_rust_type_for_field(_, _)
get_rust_type_for_field(schema, specs) ==
  CASE schema.kind = "Ref" ->
         IF ~SchemaGet(specs, schema.name).some
           THEN Fail("Ref target type not found")
           ELSE Done(RefFieldType(schema.name, get_field_type_override(schema.name)))
    [] schema.kind = "OneOf" ->
         Fail("Anonymous oneOf types should not be used for properties")
    [] schema.kind = "AllOf" ->
         Fail("Anonymous allOf types should not be used for properties")
    [] schema.kind = "Array" ->
         ArrayFieldType(get_rust_type_for_field(schema.item, specs))
    [] schema.kind = "Boolean" -> Done(RustFieldType(T_bool, None))
    [] schema.kind = "Integer" -> Done(RustFieldType(T_u64, None))
    [] schema.kind = "Object" ->
         Fail("Anonymous object types should not be used for properties")
    [] schema.kind = "String" ->
         IF schema.description.some /\ Contains(schema.description.v, T_base64)
           THEN Done(RustFieldType(VecOf(T_u8), Some(Serde(T_base64))))
           ELSE Done(RustFieldType(T_String, None))

(***************************************************************************)
(* The flatten-only analyzer (main.rs 1650-1764).                          *)
(***************************************************************************)
\* A plausible slip: only the allow-list is consulted.
should_flatten_SelectedOnly(flatten_option, name) == name \in flatten_option.selected

\* The flatten policy's verdict on a reference fragment (main.rs 1708-1713,
\* 1787-1792): FlattenOption::All, or membership in the selected names.
should_flatten(flatten_option, name) ==
  flatten_option.all \/ name \in flatten_option.selected

AddFlatten(acc, name) == [acc EXCEPT !.flatten = @ \cup {name}]

\* A plausible slip: a reference in an array's items is not recorded.
AddNonFlattenItem_Dropped(acc, name) == acc

AddNonFlatten(acc, name) == [acc EXCEPT !.non_flatten = @ \cup {name}]
AddNonFlattenItem(acc, name) == AddNonFlatten(acc, name)

\* visit_schema_for_flatten_only (main.rs 1681-1764); acc holds the two
\* sets the visit fills.
RECURSIVE visit_schema_for_flatten_only(_, _, _)
RECURSIVE VisitOneOf(_, _, _, _)
RECURSIVE VisitAllOf(_, _, _, _)
RECURSIVE VisitProperties(_, _, _, _)

VisitOneOf(variants, i, flatten_option, acc) ==
  IF i > Len(variants) THEN acc
  ELSE VisitOneOf(variants, i + 1, flatten_option,
         IF variants[i].kind = "Ref"
           THEN AddNonFlatten(acc, variants[i].name)
           ELSE visit_schema_for_flatten_only(variants[i], flatten_option, acc))

VisitAllOf(fragments, i, flatten_option, acc) ==
  IF i > Len(fragments) THEN acc
  ELSE VisitAllOf(fragments, i + 1, flatten_option,
         IF fragments[i].kind = "Ref"
           THEN IF should_flatten(flatten_option, fragments[i].name)
                  THEN AddFlatten(acc, fragments[i].name)
                  ELSE visit_schema_for_flatten_only(
                         fragments[i], flatten_option,
                         AddNonFlatten(acc, fragments[i].name))
           ELSE visit_schema_for_flatten_only(fragments[i], flatten_option, acc))

VisitProperties(props, i, flatten_option, acc) ==
  IF i > Len(props) THEN acc
  ELSE VisitProperties(props, i + 1, flatten_option,
         IF props[i][2].kind = "Ref"
           THEN AddNonFlatten(acc, props[i][2].name)
           ELSE visit_schema_for_flatten_only(props[i][2], flatten_option, acc))

visit_schema_for_flatten_only(schema, flatten_option, acc) ==
  CASE schema.kind = "OneOf" -> VisitOneOf(schema.items, 1, flatten_option, acc)
    [] schema.kind = "AllOf" -> VisitAllOf(schema.items, 1, flatten_option, acc)
    [] schema.kind = "Object" -> VisitProperties(schema.props, 1, flatten_option, acc)
    [] schema.kind = "Array" ->
         IF schema.item.kind = "Ref"
           THEN AddNonFlattenItem(acc, schema.item.name)
           ELSE visit_schema_for_flatten_only(schema.item, flatten_option, acc)
    [] OTHER -> acc

HARD_CODED_NON_FLATTEN_SCHEMAS == {N_FUNCTION_CALL, N_PENDING_STATE_UPDATE}

RECURSIVE VisitSchemas(_, _, _, _)
VisitSchemas(schemas, i, flatten_option, acc) ==
  IF i > Len(schemas) THEN acc
  ELSE VisitSchemas(schemas, i + 1, flatten_option,
                    visit_schema_for_flatten_only(schemas[i][2], flatten_option, acc))

\* get_flatten_only_schemas (main.rs 1651-1679): the names of the vector it
\* returns.  Their order in the vector is the iteration order of a HashSet,
\* which differs from run to run: FlattenOnlyVectors.
get_flatten_only_schemas(specs, flatten_option) ==
  LET sets == VisitSchemas(specs.schemas, 1, flatten_option,
                           [flatten |-> {}, non_flatten |-> {}])
  IN {item \in sets.flatten :
        ~(item \in sets.non_flatten \/ item \in HARD_CODED_NON_FLATTEN_SCHEMAS)}

\* The orders a HashSet may hand its elements out in.
IterationOrders(set) ==
  {order \in [1..Cardinality(set) -> set] :
     \A i, k \in 1..Cardinality(set) : order[i] = order[k] => i = k}

\* The vectors get_flatten_only_schemas may return (main.rs 1667-1678).
FlattenOnlyVectors(specs, flatten_option) ==
  IterationOrders(get_flatten_only_schemas(specs, flatten_option))

\* A plausible slip: only the head of the vector is compared.
VecContains_HeadOnly(vec, item) == Len(vec) > 0 /\ vec[1] = item

\* Vec::contains (main.rs 1488).
VecContains(vec, item) == \E i \in 1..Len(vec) : vec[i] = item

(***************************************************************************)
(* Field names (main.rs 2046-2119).                                        *)
(***************************************************************************)
\* camel_to_snake_case (main.rs 2105-2119): a character equal to its own
\* upper-case form (a capital, a digit, an underscore) gets an underscore
\* put before its lower-case form.
RECURSIVE CamelFrom(_, _)
CamelFrom(name, i) ==
  IF i > Len(name) THEN <<>>
  ELSE (IF to_ascii_uppercase(name[i]) = name[i]
          THEN <<"_", to_ascii_lowercase(name[i])>>
          ELSE <<name[i]>>) \o CamelFrom(name, i + 1)

camel_to_snake_case(name) == CamelFrom(name, 1)

\* The regular expression ^[A-Z]+$ (main.rs 2047).
all_upper_letters_regex(name) ==
  /\ Len(name) > 0
  /\ \A i \in 1..Len(name) : \E k \in 1..26 : UpperLetters[k] = name[i]

\* A plausible slip: every name is split, acronyms and snake case included.
to_rust_field_name_AlwaysSplit(name) == camel_to_snake_case(name)

\* to_rust_field_name (main.rs 2046-2055).
to_rust_field_name(name) ==
  IF all_upper_letters_regex(name) \/ ContainsChar(name, "_")
    THEN to_lowercase(name)
    ELSE camel_to_snake_case(name)

\* str::trim_start_matches: the prefix is removed as often as it repeats.
RECURSIVE trim_start_matches(_, _)
trim_start_matches(s, prefix) ==
  IF Len(prefix) > 0 /\ MatchesAt(s, prefix, 1)
    THEN trim_start_matches(SubSeq(s, Len(prefix) + 1, Len(s)), prefix)
    ELSE s

\* SerializerOverride::to_optional (main.rs 785-794); only called on SerdeAs
\* here, the Serde case is the todo! that get_schema_fields reports.
to_optional(serializer) == SerdeAs(OptionOf(serializer.codec))

(***************************************************************************)
(* Field extraction (main.rs 1766-1873).                                   *)
(***************************************************************************)
\* Whether a property is optional (main.rs 1838-1841).
FieldOptional(name, required) ==
  IF required.some THEN name \notin required.v ELSE FALSE

\* The field an Object property becomes (main.rs 1830-1863).
PropertyField(name, field_name, field_optional, field_type) ==
  [ name |-> field_name,
    optional |-> field_optional,
    fixed |-> None,
    arc_wrap |-> FALSE,
    type_name |-> IF field_optional THEN OptionOf(field_type.type_name)
                  ELSE field_type.type_name,
    serde_rename |-> IF name = field_name THEN None ELSE Some(name),
    serde_faltten |-> FALSE,
    serializer |-> IF field_optional /\ field_type.serializer.some
                     THEN Some(to_optional(field_type.serializer.v))
                     ELSE field_type.serializer ]

\* One turn of the property loop (main.rs 1818-1864): the vector with the
\* property's field pushed, or the failure.
PushProperty(fields, name, field_optional, field_type) ==
  IF ~field_type.ok THEN field_type
  ELSE IF field_optional /\ field_type.v.serializer.some
          /\ field_type.v.serializer.v.kind = "Serde"
    THEN Panic("Optional transformation of #[serde(with)] not implemented")
  ELSE Done(Append(fields, PropertyField(name, to_rust_field_name(name),
                                         field_optional, field_type.v)))

\* A plausible slip: the field of a fragment is an ordinary member.
FragmentField_Unflagged(reference) ==
  [ name |-> to_lowercase(reference.name),
    optional |-> FALSE,
    fixed |-> None,
    arc_wrap |-> FALSE,
    type_name |-> to_starknet_rs_name(reference.name),
    serde_rename |-> None,
    serde_faltten |-> FALSE,
    serializer |-> None ]

\* The field a reference fragment that is not flattened becomes
\* (main.rs 1797-1807).
FragmentField(reference) ==
  [ name |-> to_lowercase(reference.name),
    optional |-> FALSE,
    fixed |-> None,
    arc_wrap |-> FALSE,
    type_name |-> to_starknet_rs_name(reference.name),
    serde_rename |-> None,
    serde_faltten |-> TRUE,
    serializer |-> None ]

\* The property loop (main.rs 1818-1864); so_far is the vector, or the
\* failure that ended the loop.
RECURSIVE FieldsOfObject(_, _, _, _)
FieldsOfObject(value, i, specs, so_far) ==
  IF ~so_far.ok \/ i > Len(value.props) THEN so_far
  ELSE FieldsOfObject(value, i + 1, specs,
         PushProperty(so_far.v, value.props[i][1],
                      FieldOptional(value.props[i][1], value.required),
                      get_rust_type_for_field(value.props[i][2], specs)))

\* get_schema_fields (main.rs 1766-1873).  fields is the vector being filled;
\* path is the set of schema names whose expansion is in progress: a
\* reference back into it makes the recursion of the code endless, which
\* ends the process with a stack overflow.
RECURSIVE get_schema_fields(_, _, _, _, _)
RECURSIVE FieldsOfAllOf(_, _, _, _, _, _)

\* The fragment loop (main.rs 1784-1815); so_far as in FieldsOfObject.
FieldsOfAllOf(fragments, i, specs, so_far, flatten_option, path) ==
  IF ~so_far.ok \/ i > Len(fragments) THEN so_far
  ELSE FieldsOfAllOf(fragments, i + 1, specs,
         IF fragments[i].kind = "Ref"
            /\ ~should_flatten(flatten_option, fragments[i].name)
           THEN Done(Append(so_far.v, FragmentField(fragments[i])))
           ELSE get_schema_fields(fragments[i], specs, so_far.v, flatten_option, path),
         flatten_option, path)

get_schema_fields(schema, specs, fields, flatten_option, path) ==
  CASE schema.kind = "Ref" ->
         IF ~SchemaGet(specs, schema.name).some
           THEN Fail("Ref target type not found")
         ELSE IF schema.name \in path
           THEN Panic("stack overflow")
         ELSE get_schema_fields(SchemaGet(specs, schema.name).v, specs, fields,
                                flatten_option, path \cup {schema.name})
    [] schema.kind = "AllOf" ->
         FieldsOfAllOf(schema.items, 1, specs, Done(fields), flatten_option, path)
    [] schema.kind = "Object" -> FieldsOfObject(schema, 1, specs, Done(fields))
    [] OTHER -> Fail("Unexpected schema type when getting object fields")

(***************************************************************************)
(* Type resolution (main.rs 1456-1648).                                    *)
(***************************************************************************)
\* struct RustEnum (main.rs 102-106) and RustVariant (main.rs 135-140).
RustVariant(name, serde_name, error_text) ==
  [name |-> name, serde_name |-> serde_name, error_text |-> error_text]
RustEnum(thiserror, variants) ==
  [kind |-> "Enum", thiserror |-> thiserror, variants |-> variants]

\* struct RustType (main.rs 87-93); title and description are not modelled.
RustType(name, content) == [name |-> name, content |-> content]

\* A plausible slip: a one-of schema is treated like the other unsupported
\* shapes.
OneOfKind_Bail == Fail("Unexpected schema type when generating struct/enum")

\* What schema_to_rust_type_kind answers for Schema::OneOf (main.rs 1617).
OneOfKind == Done(None)

\* A plausible slip: a string without an enumeration is reported as not
\* implemented.
NonEnumStringKind_NotImplemented == Done(None)

\* What schema_to_rust_type_kind answers for a string without an
\* enumeration (main.rs 1640-1642).
NonEnumStringKind ==
  Fail("Unexpected non-enum string type when generating struct/enum")

\* A plausible slip: the struct of a schema is array-encoded.
StructKind_ArrayEncoded(fields) ==
  IF fields.ok THEN Done(Some(RustStruct(TRUE, FALSE, fields.v))) ELSE fields

\* The struct schema_to_rust_type_kind makes of extracted fields
\* (main.rs 1611-1615, 1621-1625).
StructKind(fields) ==
  IF fields.ok THEN Done(Some(RustStruct(FALSE, FALSE, fields.v))) ELSE fields

\* schema_to_rust_type_kind (main.rs 1597-1648): Done(Some(kind)),
\* Done(None) for a shape that is not implemented, or an error.
schema_to_rust_type_kind(specs, entity, flatten_option) ==
  CASE entity.kind = "Ref" ->
         IF ~SchemaGet(specs, entity.name).some THEN Fail("")
         ELSE StructKind(get_schema_fields(SchemaGet(specs, entity.name).v, specs,
                                           <<>>, flatten_option, {entity.name}))
    [] entity.kind = "OneOf" -> OneOfKind
    [] entity.kind \in {"AllOf", "Object"} ->
         StructKind(get_schema_fields(entity, specs, <<>>, flatten_option, {}))
    [] entity.kind = "String" ->
         IF entity.enum.some
           THEN Done(Some(RustEnum(FALSE,
                  [k \in 1..Len(entity.enum.v) |->
                     RustVariant(to_starknet_rs_name(entity.enum.v[k]),
                                 Some(entity.enum.v[k]), None)])))
           ELSE NonEnumStringKind
    [] OTHER -> Fail("Unexpected schema type when generating struct/enum")

\* FixedFieldsOptions::find_fixed_field (main.rs 192-203).
find_fixed_field(fixed_fields, type_name, field_name) ==
  LET Hit(i, k) == /\ fixed_fields[i].name = type_name
                   /\ fixed_fields[i].fields[k].name = field_name
      Hits(i) == {k \in 1..Len(fixed_fields[i].fields) : Hit(i, k)}
      Items == {i \in 1..Len(fixed_fields) : Hits(i) # {}}
  IN IF Items = {} THEN None
     ELSE LET i == CHOOSE x \in Items : \A y \in Items : x <= y
              k == CHOOSE x \in Hits(i) : \A y \in Hits(i) : x <= y
          IN Some(fixed_fields[i].fields[k])

\* ArcWrappingOptions::in_field_wrapped (main.rs 207-215).
in_field_wrapped(arc_wrapping, type_name, field_name) ==
  \E i \in 1..Len(arc_wrapping) :
    /\ arc_wrapping[i].name = type_name
    /\ \E k \in 1..Len(arc_wrapping[i].fields) : arc_wrapping[i].fields[k] = field_name

\* The characters of the model in the order of their ASCII codes, which is
\* the order String compares by.
AsciiOrder == <<"0","1","2","3","4","5","6","7","8","9","<",">">>
              \o UpperLetters \o <<"_">> \o LowerLetters
CharCode(c) == CHOOSE i \in 1..Len(AsciiOrder) : AsciiOrder[i] = c

\* String's Ord: lexicographic by character code, a proper prefix first.
StrLess(a, b) ==
  \E i \in 1..(Len(b)) :
    /\ \A k \in 1..(i - 1) : k <= Len(a) /\ a[k] = b[k]
    /\ \/ i = Len(a) + 1
       \/ i <= Len(a) /\ CharCode(a[i]) < CharCode(b[i])

\* A sorted vector with x put at position n + 1.
Insert(sorted, x, n) == SubSeq(sorted, 1, n) \o <<x>> \o SubSeq(sorted, n + 1, Len(sorted))

\* A plausible slip: the vector is left as it was filled.
sort_by_key_Unsorted(items, keys) == items

\* slice::sort_by_key / slice::sort (main.rs 1586-1588): a stable sort;
\* keys[i] is the key of items[i].
RECURSIVE sort_by_key(_, _)
sort_by_key(items, keys) ==
  IF Len(items) <= 1 THEN items
  ELSE Insert(sort_by_key(SubSeq(items, 1, Len(items) - 1),
                          SubSeq(keys, 1, Len(items) - 1)),
              items[Len(items)],
              Cardinality({i \in 1..(Len(items) - 1) : ~StrLess(keys[Len(items)], keys[i])}))

NamesOf(items) == [i \in 1..Len(items) |-> items[i].name]

\* The fixed and arc-wrapped marks put on a struct's fields
\* (main.rs 1502-1507).
WithFixedFields(kind, rusty_name, prof) ==
  IF kind.kind = "Struct"
    THEN [kind EXCEPT !.fields =
           [k \in 1..Len(kind.fields) |->
             [kind.fields[k] EXCEPT
               !.fixed = find_fixed_field(prof.fixed_field_types, rusty_name,
                                          kind.fields[k].name),
               !.arc_wrap = in_field_wrapped(prof.arc_wrapped_types, rusty_name,
                                             kind.fields[k].name)]]]
    ELSE kind

\* What one classified schema adds (main.rs 1492-1514).  acc holds the
\* vectors types and not_implemented_types.
Classified(acc, name, rusty_name, prof, content) ==
  IF ~content.ok THEN content
  ELSE IF ~content.v.some
    THEN Done([acc EXCEPT !.not_implemented = Append(@, name)])
  ELSE Done([acc EXCEPT !.types =
               Append(@, RustType(rusty_name,
                                  WithFixedFields(content.v.v, rusty_name, prof)))])

\* One turn of the schema loop (main.rs 1469-1515).
ResolveSchema(name, entity, specs, prof, flatten_only_types, acc) ==
  IF \/ name \in prof.ignore_types
     \/ get_field_type_override(name).some
     \/ VecContains(flatten_only_types, name)
    THEN Done(acc)
    ELSE Classified(acc, name, to_starknet_rs_name(name), prof,
                    schema_to_rust_type_kind(specs, entity, prof.flatten_options))

\* The schema loop of resolve_types (main.rs 1469-1515); so_far is acc, or
\* the failure that ended the loop.
RECURSIVE ResolveSchemas(_, _, _, _, _)
ResolveSchemas(specs, i, prof, flatten_only_types, so_far) ==
  IF ~so_far.ok \/ i > Len(specs.schemas) THEN so_far
  ELSE ResolveSchemas(specs, i + 1, prof, flatten_only_types,
         ResolveSchema(specs.schemas[i][1], specs.schemas[i][2], specs, prof,
                       flatten_only_types, so_far.v))

\* A plausible slip: the variants get no message text.
ErrorEnum_NoText(specs) ==
  IF \E i \in 1..Len(specs.errors) : specs.errors[i][2].kind = "Reference"
    THEN Panic("Error redirection not implemented")
    ELSE Done(RustType(N_StarknetError,
           RustEnum(TRUE, [i \in 1..Len(specs.errors) |->
             RustVariant(to_starknet_rs_name(specs.errors[i][1]), None, None)])))

\* The error enum (main.rs 1517-1538).
ErrorEnum(specs) ==
  IF \E i \in 1..Len(specs.errors) : specs.errors[i][2].kind = "Reference"
    THEN Panic("Error redirection not implemented")
    ELSE Done(RustType(N_StarknetError,
           RustEnum(TRUE, [i \in 1..Len(specs.errors) |->
             RustVariant(to_starknet_rs_name(specs.errors[i][1]), None,
                         Some(specs.errors[i][2].message))])))

\* A plausible slip: the field is put in front of the others.
PushParam_Front(request_fields, param, field_type) ==
  IF ~field_type.ok THEN field_type
  ELSE Done(<< [ name |-> param.name, optional |-> ~param.required, fixed |-> None,
                 arc_wrap |-> FALSE, type_name |-> field_type.v.type_name,
                 serde_rename |-> None, serde_faltten |-> FALSE,
                 serializer |-> field_type.v.serializer ] >> \o request_fields)

\* One turn of the parameter loop (main.rs 1544-1558).
PushParam(request_fields, param, field_type) ==
  IF ~field_type.ok THEN field_type
  ELSE Done(Append(request_fields,
         [ name |-> param.name, optional |-> ~param.required, fixed |-> None,
           arc_wrap |-> FALSE, type_name |-> field_type.v.type_name,
           serde_rename |-> None, serde_faltten |-> FALSE,
           serializer |-> field_type.v.serializer ]))

\* The request fields of one method (main.rs 1544-1558).
RECURSIVE RequestFields(_, _, _, _)
RequestFields(method, i, specs, so_far) ==
  IF ~so_far.ok \/ i > Len(method.params) THEN so_far
  ELSE RequestFields(method, i + 1, specs,
         PushParam(so_far.v, method.params[i],
                   get_rust_type_for_field(method.params[i].schema, specs)))

\* The request type of one method (main.rs 1560-1582).
PushRequest(req_types, method, request_fields) ==
  IF ~request_fields.ok THEN request_fields
  ELSE Done(Append(req_types,
         RustType(
           to_starknet_rs_name(camel_to_snake_case(
             trim_start_matches(method.name, N_starknet_))) \o N_Request,
           IF request_fields.v = <<>>
             THEN RustUnit(TRUE)
             ELSE RustStruct(TRUE, TRUE, request_fields.v))))

\* The method loop (main.rs 1541-1583).
RECURSIVE RequestTypes(_, _, _)
RequestTypes(specs, i, so_far) ==
  IF ~so_far.ok \/ i > Len(specs.methods) THEN so_far
  ELSE RequestTypes(specs, i + 1,
         PushRequest(so_far.v, specs.methods[i],
                     RequestFields(specs.methods[i], 1, specs, Done(<<>>))))

\* The end of resolve_types (main.rs 1585-1594), given what its three parts
\* produced; the first failure, in the order of the code, is the outcome.
Resolved(looped, errors, req_types) ==
  IF ~looped.ok THEN looped
  ELSE IF ~errors.ok THEN errors
  ELSE IF ~req_types.ok THEN req_types
  ELSE Done([ model_types |->
                sort_by_key(Append(looped.v.types, errors.v),
                            NamesOf(Append(looped.v.types, errors.v))),
              request_response_types |-> sort_by_key(req_types.v, NamesOf(req_types.v)),
              not_implemented |->
                sort_by_key(looped.v.not_implemented, looped.v.not_implemented) ])

\* resolve_types (main.rs 1456-1595); flatten_only_types is the vector that
\* get_flatten_only_schemas returned to it (main.rs 1467).
resolve_types(specs, prof, flatten_only_types) ==
  Resolved(ResolveSchemas(specs, 1, prof, flatten_only_types,
                          Done([types |-> <<>>, not_implemented |-> <<>>])),
           ErrorEnum(specs),
           RequestTypes(specs, 1, Done(<<>>)))

(***************************************************************************)
(* The documents and profiles the generator is run on.                     *)
(***************************************************************************)
\* Number of component schemas of a document.
MaxSchemas == 3

N_A == <<"A">>
N_B == <<"B">>
N_C == <<"C">>
N_x == <<"x">>
N_y == <<"y">>
N_p == <<"p">>
N_q == <<"q">>
N_call == <<"c","a","l","l">>
N_chainId == <<"c","h","a","i","n","I","d">>
N_request == <<"r","e","q","u","e","s","t">>
N_BLOCK_NOT_FOUND == <<"B","L","O","C","K","_","N","O","T","_","F","O","U","N","D">>
N_message == <<"m","s","g">>
N_STARKNET_ERROR == <<"S","T","A","R","K","N","E","T","_","E","R","R","O","R">>
N_DECLARE == <<"D","E","C","L","A","R","E">>

\* The name the references of a document point at: an ordinary name, a name
\* of the fixed exclusion list, a name with a manual override.
TargetNames == {N_EVENT, N_FUNCTION_CALL, N_FELT}

\* A slot of the schema map that holds no entry.
Absent == <<>>

\* The schema named tn, if any.
TargetPool(tn) ==
  {Absent} \cup
  {<<tn, s>> : s \in { SObject(<< <<N_x, SInteger>> >>, None),
                       SObject(<< <<N_x, SInteger>>, <<N_y, SString(None, None)>> >>,
                               Some({N_x})),
                       SOneOf(<< SInteger, SBoolean >>),
                       SString(Some(<< N_DECLARE >>), None),
                       SString(None, None) }}

\* Schema A: the uses of tn inside an allOf, an alias, a top-level array;
\* an alias of itself, an alias of B, a fragment that is A itself.
UserPool(tn) ==
  {Absent} \cup
  {<<N_A, s>> : s \in { SAllOf(<< SRef(tn) >>),
                        SAllOf(<< SRef(tn), SObject(<< <<N_y, SBoolean>> >>, None) >>),
                        SAllOf(<< SObject(<< <<N_p, SRef(tn)>> >>, None) >>),
                        SRef(tn),
                        SArray(SRef(tn)),
                        SRef(N_A),
                        SRef(N_B),
                        SAllOf(<< SObject(<< <<N_p, SRef(N_A)>> >>, None), SRef(N_A) >>) }}

\* Schema B: the other uses of tn, and the top-level shapes without any;
\* or a schema whose name reads StarknetError in Rust.
OtherPool(tn) ==
  {Absent} \cup
  {<<N_B, s>> : s \in { SObject(<< <<N_p, SRef(tn)>> >>, None),
                        SObject(<< <<N_q, SArray(SRef(tn))>> >>, None),
                        SOneOf(<< SRef(tn), SInteger >>),
                        SOneOf(<< SArray(SObject(<< <<N_p, SRef(tn)>> >>, None)) >>),
                        SAllOf(<< SRef(tn) >>),
                        SAllOf(<< SRef(tn), SRef(N_A) >>),
                        SRef(N_A),
                        SObject(<< <<N_x, SInteger>> >>, None),
                        SInteger,
                        SBoolean,
                        SString(None, None) }}
  \cup {<<N_STARKNET_ERROR, SObject(<< <<N_x, SInteger>> >>, None)>>}

\* Any further schema: a plain object.
ExtraPool(i) ==
  {Absent, << <<UpperLetters[i]>>, SObject(<< <<N_x, SInteger>> >>, None) >>}

SlotPool(i, tn) ==
  CASE i = 1 -> TargetPool(tn)
    [] i = 2 -> UserPool(tn)
    [] i = 3 -> OtherPool(tn)
    [] OTHER -> ExtraPool(i)

\* The schema maps of k slots about tn, the empty slots left out.
RECURSIVE SchemaMaps(_, _)
SchemaMaps(k, tn) ==
  IF k = 0 THEN { <<>> }
  ELSE {IF e = Absent THEN m ELSE Append(m, e) :
          m \in SchemaMaps(k - 1, tn), e \in SlotPool(k, tn)}

N_CLASS_HASH_NOT_FOUND == <<"C","L","A","S","S","_","H","A","S","H","_","N","O","T","_","F","O","U","N","D">>
N_other == <<"o","t","h","e","r">>
N_block_id == <<"b","l","o","c","k","_","i","d">>

ErrorLiteral == << N_BLOCK_NOT_FOUND, [kind |-> "Error", message |-> N_message] >>
ErrorRedirect == << N_C, [kind |-> "Reference"] >>

\* The methods and errors of the core document, and the write document.
Rests(tn) ==
  { [main |-> [methods |-> <<>>, errors |-> << ErrorLiteral >>],
     write |-> [schemas |-> <<>>, methods |-> <<>>, errors |-> <<>>]],
    [main |-> [methods |-> << [name |-> N_starknet_ \o N_call,
                               params |-> << [name |-> N_request, schema |-> SRef(tn),
                                              required |-> TRUE],
                                             [name |-> N_block_id, schema |-> SInteger,
                                              required |-> FALSE] >>] >>,
               errors |-> << ErrorLiteral >>],
     write |-> [schemas |-> << <<N_C, SInteger>> >>,
                methods |-> << [name |-> N_starknet_ \o N_chainId, params |-> <<>>] >>,
                errors |-> << << N_BLOCK_NOT_FOUND, [kind |-> "Error", message |-> N_other] >>,
                              << N_CLASS_HASH_NOT_FOUND,
                                 [kind |-> "Error", message |-> N_other] >> >>]],
    [main |-> [methods |-> <<>>, errors |-> << ErrorLiteral >>],
     write |-> [schemas |-> <<>>, methods |-> <<>>, errors |-> << ErrorRedirect >>]] }

\* struct Specification, as parsed (main.rs 1344-1350).
Specification(schemas, rest) ==
  [schemas |-> schemas, errors |-> rest.errors, methods |-> rest.methods]

\* The core and write documents of a profile.
RawSpecs ==
  UNION { {[main |-> Specification(m, r.main), write |-> r.write] :
             m \in SchemaMaps(MaxSchemas, tn), r \in Rests(tn)} :
          tn \in TargetNames }

\* A plausible slip: the write document's definition replaces the core one.
MergeError_Overwrite(errors, entry) ==
  IF \E i \in 1..Len(errors) : errors[i][1] = entry[1]
    THEN [i \in 1..Len(errors) |-> IF errors[i][1] = entry[1] THEN entry ELSE errors[i]]
    ELSE Append(errors, entry)

\* One write error put into the core map (main.rs 1357-1361): only into a
\* vacant entry.
MergeError(errors, entry) ==
  IF \E i \in 1..Len(errors) : errors[i][1] = entry[1]
    THEN errors
    ELSE Append(errors, entry)

\* The loop over the write errors (main.rs 1352-1362).
RECURSIVE MergeErrors(_, _, _)
MergeErrors(errors, write_errors, i) ==
  IF i > Len(write_errors) THEN errors
  ELSE MergeErrors(MergeError(errors, write_errors[i]), write_errors, i + 1)

\* enum FlattenOption (main.rs 154-159).
FlattenAll == [all |-> TRUE, selected |-> {}]
FlattenSelected(names) == [all |-> FALSE, selected |-> names]

\* struct GenerationProfile (main.rs 24-32).
GenerationProfile(flatten_options, ignore_types) ==
  [ flatten_options |-> flatten_options,
    ignore_types |-> ignore_types,
    fixed_field_types |->
      << [name |-> N_B, fields |-> << FixedField(N_x, Native(T_u64, "1")) >>] >>,
    arc_wrapped_types |-> << [name |-> N_A, fields |-> << N_y >>] >> ]

Profiles ==
  { GenerationProfile(f, i) :
      f \in {FlattenAll, FlattenSelected({N_EVENT, N_FUNCTION_CALL}), FlattenSelected({})},
      i \in {{}, {N_A}} }

(***************************************************************************)
(* A run of the generator (main, main.rs 1339-1454).                       *)
(***************************************************************************)
\* A piece of standard output: what it is, and the name it is about.
Line(k, name) == [k |-> k, name |-> name]
LinesFor(k, names) == [i \in 1..Len(names) |-> Line(k, names[i])]

\* A plausible slip: a struct with a fixed field is left to the derived
\* serialization.
need_custom_serde_ArrayOnly(rust_type) ==
  rust_type.content.kind \in {"Struct", "Unit"} /\ rust_type.content.serde_as_array

\* A plausible slip: an error enum is taken to need a block.
need_custom_serde_ErrorEnum(rust_type) ==
  CASE rust_type.content.kind = "Struct" -> StructNeedCustomSerde(rust_type.content)
    [] rust_type.content.kind = "Unit" -> rust_type.content.serde_as_array
    [] OTHER -> rust_type.content.thiserror

\* RustType::need_custom_serde (main.rs 246-253).
need_custom_serde(rust_type) ==
  CASE rust_type.content.kind = "Struct" -> StructNeedCustomSerde(rust_type.content)
    [] rust_type.content.kind = "Unit" -> rust_type.content.serde_as_array
    [] OTHER -> FALSE

\* A plausible slip: the request types are chained in front.
RenderOrder_RequestsFirst(resolved) == resolved.request_response_types \o resolved.model_types

\* The order the types are rendered in (main.rs 1433-1436).
RenderOrder(resolved) == resolved.model_types \o resolved.request_response_types

\* The provenance header and the list of ignored types (main.rs 1364-1383).
\* The ignore list is a vector in the code; its one name at most here.
HeaderLines(prof) ==
  << Line("header", <<>>) >>
    \o LinesFor("ignored", IF prof.ignore_types = {} THEN <<>>
                           ELSE << CHOOSE n \in prof.ignore_types : TRUE >>)

\* The list of types that are not implemented, then the imports
\* (main.rs 1394-1427).
ReportLines(resolved) ==
  LinesFor("not_implemented", resolved.not_implemented) \o << Line("imports", <<>>) >>

\* Whether the definition of a type derives Serialize and Deserialize
\* (main.rs 269-284, 626-633, 660, 671-675).
derive_serde(rust_type) ==
  CASE rust_type.content.kind = "Struct" -> ~StructNeedCustomSerde(rust_type.content)
    [] rust_type.content.kind = "Unit" -> ~rust_type.content.serde_as_array
    [] OTHER -> TRUE

\* RustType::render_stdout (main.rs 219-236): the derive attribute, then
\* the definition.
DefinitionLines(rust_type) ==
  << Line(IF derive_serde(rust_type) THEN "derive_serde" ELSE "derive", rust_type.name),
     Line("type", rust_type.name) >>

\* The definitions of the types (main.rs 1429-1443).
TypeLines(resolved) ==
  [i \in 1..(2 * Len(RenderOrder(resolved))) |->
     DefinitionLines(RenderOrder(resolved)[(i + 1) \div 2])[2 - (i % 2)]]

\* The types main collects while it renders the definitions
\* (main.rs 1431-1440).
manual_serde_types(resolved) == SelectSeq(RenderOrder(resolved), need_custom_serde)

\* RustType::render_serde_stdout (main.rs 238-244): the block, or the todo!
\* for a type that is neither a struct nor a unit.
render_serde_stdout(rust_type) ==
  IF rust_type.content.kind \in {"Struct", "Unit"}
    THEN Done(Line("serde", rust_type.name))
    ELSE Panic("serde blocks only implemented for structs and unit")

\* The collected types whose block is written: those before the first one
\* that render_serde_stdout panics on.
Rendered(types) ==
  SubSeq(types, 1,
         Cardinality({i \in 1..Len(types) :
                        \A k \in 1..i : render_serde_stdout(types[k]).ok}))

\* The serde blocks of the types that need them (main.rs 1445-1453).
SerdeLines(resolved) ==
  LinesFor("serde", NamesOf(Rendered(manual_serde_types(resolved))))

\* Whether the loop of main.rs 1447-1453 ends in the todo!.
SerdeAborts(resolved) ==
  \E i \in 1..Len(manual_serde_types(resolved)) :
    ~render_serde_stdout(manual_serde_types(resolved)[i]).ok

RunInit ==
  /\ \E raw_specs \in RawSpecs : doc = raw_specs.main /\ write_specs = raw_specs.write
  /\ profile \in Profiles
  /\ result = <<>> /\ out = <<>> /\ pc = "parsed"
  /\ nm_in = <<>> /\ nm_once = <<>> /\ nm_twice = <<>> /\ nm_field = <<>> /\ nm_pc = "idle"
  /\ ty = <<>> /\ val = NoValue /\ wire = NoWire /\ res = NoResult /\ op = "idle"

\* The merge of the write document into the core one (main.rs 1346-1362):
\* Vec::append moves the methods out of the write document.
Merge ==
  /\ pc = "parsed"
  /\ doc' = [doc EXCEPT !.methods = @ \o write_specs.methods,
                        !.errors = MergeErrors(@, write_specs.errors, 1)]
  /\ write_specs' = [write_specs EXCEPT !.methods = <<>>]
  /\ pc' = "loaded"
  /\ UNCHANGED << profile, result, out, names_vars, codec_vars >>

\* main.rs 1364-1383.
Header ==
  /\ pc = "loaded"
  /\ out' = HeaderLines(profile)
  /\ pc' = "header"
  /\ UNCHANGED << doc, write_specs, profile, result, names_vars, codec_vars >>

\* A resolution that never returns: get_schema_fields follows a reference
\* back into a schema it is in the middle of (main.rs 1781, 1795).
RecursesForever(resolution) == resolution = Panic("stack overflow")

\* resolve_types(...).expect(...) (main.rs 1385-1392), when resolve_types
\* returns: an error ends the process as a panic does.
Resolve ==
  /\ pc = "header"
  /\ \E flatten_only_types \in FlattenOnlyVectors(doc, profile.flatten_options) :
       /\ ~RecursesForever(resolve_types(doc, profile, flatten_only_types))
       /\ result' = resolve_types(doc, profile, flatten_only_types)
  /\ pc' = IF result'.ok THEN "resolved" ELSE "aborted"
  /\ UNCHANGED << doc, write_specs, profile, out, names_vars, codec_vars >>

\* resolve_types when it does not return: the recursion of
\* get_schema_fields (main.rs 1773-1782, 1794-1795) goes on until the stack
\* is used up and the process is killed, with no result and no error value.
Overflow ==
  /\ pc = "header"
  /\ \E flatten_only_types \in FlattenOnlyVectors(doc, profile.flatten_options) :
       RecursesForever(resolve_types(doc, profile, flatten_only_types))
  /\ pc' = "overflowed"
  /\ UNCHANGED << doc, write_specs, profile, result, out, names_vars, codec_vars >>

\* main.rs 1394-1427.
Report ==
  /\ pc = "resolved"
  /\ out' = out \o ReportLines(result.v)
  /\ pc' = "reported"
  /\ UNCHANGED << doc, write_specs, profile, result, names_vars, codec_vars >>

\* main.rs 1429-1443.
RenderTypes ==
  /\ pc = "reported"
  /\ out' = out \o TypeLines(result.v)
  /\ pc' = "rendered"
  /\ UNCHANGED << doc, write_specs, profile, result, names_vars, codec_vars >>

\* main.rs 1445-1453.
RenderSerde ==
  /\ pc = "rendered"
  /\ out' = out \o SerdeLines(result.v)
  /\ pc' = IF SerdeAborts(result.v) THEN "aborted" ELSE "done"
  /\ UNCHANGED << doc, write_specs, profile, result, names_vars, codec_vars >>

Next ==
  \/ Merge
  \/ Header
  \/ Resolve
  \/ Overflow
  \/ Report
  \/ RenderTypes
  \/ RenderSerde

Spec == RunInit /\ [][Next]_vars

(***************************************************************************)
(* The references of a document, by the context they occur in.             *)
(***************************************************************************)
\* Every reference inside a schema, with the context it stands in: the
\* schema itself ("alias"), an Object property, an Array's items, a oneOf
\* variant, an allOf fragment.
RECURSIVE References(_, _)
References(schema, ctx) ==
  CASE schema.kind = "Ref" -> {[name |-> schema.name, ctx |-> ctx]}
    [] schema.kind = "OneOf" ->
         UNION {References(schema.items[i], "variant") : i \in 1..Len(schema.items)}
    [] schema.kind = "AllOf" ->
         UNION {References(schema.items[i], "fragment") : i \in 1..Len(schema.items)}
    [] schema.kind = "Object" ->
         UNION {References(schema.props[i][2], "property") : i \in 1..Len(schema.props)}
    [] schema.kind = "Array" -> References(schema.item, "items")
    [] OTHER -> {}

DocReferences(specs) ==
  UNION {References(specs.schemas[i][2], "alias") : i \in 1..Len(specs.schemas)}

\* The fragments the flatten policy designates.
Designated(flatten_option, name) == flatten_option.all \/ name \in flatten_option.selected

\* F: the names that occur as a designated allOf fragment.
FlattenRefs(specs, flatten_option) ==
  {r.name : r \in {x \in DocReferences(specs) :
                     x.ctx = "fragment" /\ Designated(flatten_option, x.name)}}

\* N: the names that occur in a property, in items, in a variant, or as a
\* fragment that is not designated.
OtherRefs(specs, flatten_option) ==
  {r.name : r \in {x \in DocReferences(specs) :
                     \/ x.ctx \in {"property", "items", "variant"}
                     \/ x.ctx = "fragment" /\ ~Designated(flatten_option, x.name)}}

\* X: the fixed exclusion list.
ExclusionList == {N_FUNCTION_CALL, N_PENDING_STATE_UPDATE}

SchemaNames(specs) == {specs.schemas[i][1] : i \in 1..Len(specs.schemas)}
SchemaOf(specs, name) ==
  specs.schemas[CHOOSE i \in 1..Len(specs.schemas) : specs.schemas[i][1] = name][2]

\* Whether the resolution holds a model type made for schema name.
EmittedFor(resolved, name) ==
  \E i \in 1..Len(resolved.model_types) :
    resolved.model_types[i].name = to_starknet_rs_name(name)

Listed(resolved, name) ==
  \E i \in 1..Len(resolved.not_implemented) : resolved.not_implemented[i] = name

ResolveActed == pc \in {"resolved", "aborted", "reported", "rendered", "done"}
ResolveSucceeded == pc \in {"resolved", "reported", "rendered", "done"}

N_R == <<"R">>
N_r == <<"r">>

\* The documents that differ from specs by one more Object property that
\* references name: in a schema of its own, or in an Object schema there is.
WithPropertyRef(specs, name) ==
  { [specs EXCEPT !.schemas =
       Append(@, <<N_R, SObject(<< <<N_r, SRef(name)>> >>, None)>>)] }
  \cup
  { [specs EXCEPT !.schemas[i] =
       <<@[1], SObject(Append(@[2].props, <<N_r, SRef(name)>>), @[2].required)>>] :
      i \in {k \in 1..Len(specs.schemas) : specs.schemas[k][2].kind = "Object"} }

\* The names referenced only as designated allOf fragments.
OnlyFlattenRefs(specs, flatten_option) ==
  FlattenRefs(specs, flatten_option) \ OtherRefs(specs, flatten_option)

EmittedAfter(specs2, prof, name) ==
  \A vec \in FlattenOnlyVectors(specs2, prof.flatten_options) :
    resolve_types(specs2, prof, vec).ok
      /\ EmittedFor(resolve_types(specs2, prof, vec).v, name)

\* C6 (as stated): a name referenced only as designated allOf fragments gets
\* no standalone model type; with one more reference to it from an Object
\* property, it gets one.
C6_FlattenOnlyElided ==
  ResolveSucceeded =>
    \A S \in OnlyFlattenRefs(doc, profile.flatten_options) :
      /\ ~EmittedFor(result.v, S)
      /\ \A specs2 \in WithPropertyRef(doc, S) : EmittedAfter(specs2, profile, S)

\* A schema the resolver would make a type of, were it not flatten-only:
\* defined, not ignored, not overridden, not a oneOf.
Emittable(specs, prof, name) ==
  /\ name \in SchemaNames(specs)
  /\ name \notin prof.ignore_types
  /\ ~get_field_type_override(name).some
  /\ SchemaOf(specs, name).kind # "OneOf"

\* C6 (amended): a name outside the fixed exclusion list that is referenced
\* only as designated allOf fragments gets no standalone model type; with
\* one more reference to it from an Object property, a resolution that
\* succeeds holds a standalone type for it whenever the schema is defined,
\* not ignored, not overridden and not a oneOf.
C6_FlattenOnlyElidedUnlessListed ==
  ResolveSucceeded =>
    \A S \in OnlyFlattenRefs(doc, profile.flatten_options) :
      /\ S \notin ExclusionList => ~EmittedFor(result.v, S)
      /\ \A specs2 \in WithPropertyRef(doc, S) :
           \A vec \in FlattenOnlyVectors(specs2, profile.flatten_options) :
             (Emittable(doc, profile, S) /\ resolve_types(specs2, profile, vec).ok)
               => EmittedFor(resolve_types(specs2, profile, vec).v, S)

\* A run in which EVENT is referenced only as a designated fragment, is not
\* emitted, and is emitted once an Object property references it.
C6_Witness ==
  /\ pc = "done"
  /\ N_EVENT \in OnlyFlattenRefs(doc, profile.flatten_options)
  /\ N_EVENT \in SchemaNames(doc)
  /\ ~EmittedFor(result.v, N_EVENT)
  /\ \A specs2 \in WithPropertyRef(doc, N_EVENT) : EmittedAfter(specs2, profile, N_EVENT)
  /\ Cardinality(WithPropertyRef(doc, N_EVENT)) > 1

\* C7: get_flatten_only_schemas returns exactly F minus N minus X.
C7_FlattenOnlyIsFMinusNMinusX ==
  ResolveActed =>
    get_flatten_only_schemas(doc, profile.flatten_options)
      = (FlattenRefs(doc, profile.flatten_options)
           \ OtherRefs(doc, profile.flatten_options)) \ ExclusionList

\* A run in which a name is a designated fragment of one schema and the
\* items of an array in another, so that N takes it out of F.
C7_Witness ==
  /\ ResolveActed
  /\ N_EVENT \in FlattenRefs(doc, profile.flatten_options)
  /\ \E x \in DocReferences(doc) : x.name = N_EVENT /\ x.ctx = "items"
  /\ \A x \in DocReferences(doc) : x.ctx \in {"fragment", "items"}
  /\ get_flatten_only_schemas(doc, profile.flatten_options) = {}

\* The schemas the schema loop skips: ignored, overridden, flatten-only.
Excluded(specs, prof, name) ==
  \/ name \in prof.ignore_types
  \/ get_field_type_override(name).some
  \/ name \in (OnlyFlattenRefs(specs, prof.flatten_options) \ ExclusionList)

\* The top-level shapes other than a oneOf that no type is generated for.
UnsupportedShape(schema) ==
  \/ schema.kind = "String" /\ ~schema.enum.some
  \/ schema.kind \in {"Integer", "Boolean", "Array"}

\* The schemas of the loop that have such a shape.
UnsupportedSchemas(specs, prof) ==
  {n \in SchemaNames(specs) :
     ~Excluded(specs, prof, n) /\ UnsupportedShape(SchemaOf(specs, n))}

\* The schemas of the loop that are a oneOf.
UnionSchemas(specs, prof) ==
  {n \in SchemaNames(specs) :
     ~Excluded(specs, prof, n) /\ SchemaOf(specs, n).kind = "OneOf"}

\* Every schema of the loop but name has a model type or is listed.
OthersClassified(specs, prof, resolved, name) ==
  \A n \in SchemaNames(specs) \ {name} :
    ~Excluded(specs, prof, n) => (EmittedFor(resolved, n) \/ Listed(resolved, n))

\* C8 (as stated): a top-level string without an enumeration, integer,
\* boolean or array does not abort the resolution; its name is listed as
\* not implemented and every other schema is still classified.
C8_UnsupportedShapeListed ==
  ResolveActed =>
    \A n \in UnsupportedSchemas(doc, profile) :
      /\ result.ok
      /\ Listed(result.v, n)
      /\ OthersClassified(doc, profile, result.v, n)

\* C8 (amended): a top-level oneOf does not abort the resolution, its name
\* is listed as not implemented and every other schema is still classified;
\* a top-level string without an enumeration, integer, boolean or array
\* makes the resolution fail, with no result.
C8_UnionListedOtherShapesAbort ==
  ResolveActed =>
    /\ UnsupportedSchemas(doc, profile) # {} => (~result.ok /\ pc = "aborted")
    /\ result.ok =>
         \A n \in UnionSchemas(doc, profile) :
           /\ Listed(result.v, n)
           /\ ~EmittedFor(result.v, n)
           /\ OthersClassified(doc, profile, result.v, n)

\* A run that the string without an enumeration, met first by the loop, ends.
C8_Witness ==
  /\ pc = "aborted"
  /\ Len(doc.schemas) = 3
  /\ UnsupportedSchemas(doc, profile) = {N_EVENT}
  /\ SchemaOf(doc, N_EVENT).kind = "String"
  /\ result.err = "Unexpected non-enum string type when generating struct/enum"
  /\ ~result.panic

\* The names of the schemas that schema_to_rust_type_kind makes a type of.
Supported(specs, prof, name) ==
  /\ schema_to_rust_type_kind(specs, SchemaOf(specs, name), prof.flatten_options).ok
  /\ schema_to_rust_type_kind(specs, SchemaOf(specs, name), prof.flatten_options).v.some

\* The document has the one top-level oneOf U, every schema is in the loop,
\* the others are supported, and its errors and methods resolve.
OneUnionAmongSupported(specs, prof, U) ==
  /\ U \in SchemaNames(specs)
  /\ SchemaOf(specs, U).kind = "OneOf"
  /\ \A n \in SchemaNames(specs) : ~Excluded(specs, prof, n)
  /\ \A n \in SchemaNames(specs) \ {U} :
       SchemaOf(specs, n).kind # "OneOf" /\ Supported(specs, prof, n)
  /\ ErrorEnum(specs).ok
  /\ RequestTypes(specs, 1, Done(<<>>)).ok

NotImplementedLines == SelectSeq(out, LAMBDA l : l.k = "not_implemented")

\* C9: with one top-level oneOf U among N supported schemas, the resolution
\* succeeds, the model types are those of the N schemas and the error enum,
\* and the not-implemented list, which the run prints, is exactly [U].
C9_OneUnionAmongSupported ==
  ResolveActed =>
    \A U \in SchemaNames(doc) :
      OneUnionAmongSupported(doc, profile, U) =>
        /\ result.ok /\ pc # "aborted"
        /\ {result.v.model_types[i].name : i \in 1..Len(result.v.model_types)}
             = {to_starknet_rs_name(n) : n \in SchemaNames(doc) \ {U}}
                 \cup {N_StarknetError}
        /\ Len(result.v.model_types) = Len(doc.schemas)
        /\ result.v.not_implemented = << U >>
        /\ pc \in {"reported", "rendered", "done"}
             => NotImplementedLines = << Line("not_implemented", U) >>

\* A finished run on a document with the oneOf B and two supported schemas.
C9_Witness ==
  /\ pc = "done"
  /\ OneUnionAmongSupported(doc, profile, N_B)
  /\ Len(doc.schemas) = 3
  /\ Len(result.v.model_types) = 3
  /\ result.v.not_implemented = << N_B >>

(***************************************************************************)
(* The field-name transform applied to a property name.                    *)
(***************************************************************************)
N_ABI == <<"A","B","I">>
N_abi == <<"a","b","i">>
N_block_hash == <<"b","l","o","c","k","_","h","a","s","h">>
N_blockHash == <<"b","l","o","c","k","H","a","s","h">>

FieldAlphabet == {"a", "b", "C", "D", "_", "1"}

\* Property names: every text over the alphabet up to MaxNameLen, and
\* names of the kinds the documents hold.
FieldNameInputs ==
  UNION {[1..n -> FieldAlphabet] : n \in 0..MaxNameLen}
    \cup {N_ABI, N_block_hash, N_blockHash, N_chainId, N_BLOCK_HEADER}

FieldNamesInit ==
  /\ nm_in \in FieldNameInputs
  /\ nm_once = <<>> /\ nm_twice = <<>> /\ nm_field = <<>> /\ nm_pc = "property"
  /\ ty = <<>> /\ val = NoValue /\ wire = NoWire /\ res = NoResult /\ op = "idle"
  /\ doc = <<>> /\ write_specs = <<>> /\ profile = <<>> /\ result = <<>> /\ out = <<>>
  /\ pc = "idle"

\* to_rust_field_name on a property name (main.rs 1830).
ApplyFieldName ==
  /\ nm_pc = "property"
  /\ nm_field' = to_rust_field_name(nm_in)
  /\ nm_pc' = "field"
  /\ UNCHANGED << nm_in, nm_once, nm_twice >>
  /\ UNCHANGED << codec_vars, run_vars >>

FieldNamesNext == ApplyFieldName

SpecFieldNames == FieldNamesInit /\ [][FieldNamesNext]_vars

\* A name made of capital letters only.
OnlyUppercase(name) ==
  /\ name # <<>>
  /\ \A i \in 1..Len(name) : \E k \in 1..26 : name[i] = UpperLetters[k]

Separators(name) == Cardinality({i \in 1..Len(name) : name[i] = "_"})

\* C11: a property name of capital letters only becomes that name in lower
\* case, one token with no separator; a name that holds a separator becomes
\* that name in lower case, no separator more or less; only other names
\* are split.
C11_AcronymsAndSnakeCaseKept ==
  nm_pc = "field" =>
    /\ OnlyUppercase(nm_in) =>
         (nm_field = to_lowercase(nm_in) /\ Separators(nm_field) = 0)
    /\ ContainsChar(nm_in, "_") =>
         (nm_field = to_lowercase(nm_in) /\ Separators(nm_field) = Separators(nm_in))
    /\ Separators(nm_field) # Separators(nm_in) =>
         (~OnlyUppercase(nm_in) /\ ~ContainsChar(nm_in, "_"))

\* ABI becomes abi.
C11_Witness ==
  /\ nm_pc = "field"
  /\ nm_in = N_ABI
  /\ nm_field = N_abi

(***************************************************************************)
(* The merge of the two documents.                                         *)
(***************************************************************************)
ErrorNames(errors) == {errors[i][1] : i \in 1..Len(errors)}
ErrorNamed(errors, name) ==
  errors[CHOOSE i \in 1..Len(errors) : errors[i][1] = name][2]

\* C12: the merge keeps the core definition of every error name both
\* documents define, adds every error name only the write document
\* defines, and makes the method list the core methods followed by the
\* write methods, each in their order.
C12_MergeFirstWins ==
  [][ pc = "parsed" =>
        /\ \A n \in ErrorNames(doc.errors) :
             n \in ErrorNames(doc'.errors)
               /\ ErrorNamed(doc'.errors, n) = ErrorNamed(doc.errors, n)
        /\ \A n \in ErrorNames(write_specs.errors) \ ErrorNames(doc.errors) :
             n \in ErrorNames(doc'.errors)
               /\ ErrorNamed(doc'.errors, n) = ErrorNamed(write_specs.errors, n)
        /\ ErrorNames(doc'.errors)
             = ErrorNames(doc.errors) \cup ErrorNames(write_specs.errors)
        /\ Len(doc'.errors) = Cardinality(ErrorNames(doc'.errors))
        /\ doc'.methods = doc.methods \o write_specs.methods ]_vars

\* A merged document: BLOCK_NOT_FOUND, which both define, has the core
\* text; CLASS_HASH_NOT_FOUND came from the write document; the core
\* method is followed by the write method.
C12_Witness ==
  /\ pc = "loaded"
  /\ N_BLOCK_NOT_FOUND \in ErrorNames(write_specs.errors)
  /\ ErrorNamed(write_specs.errors, N_BLOCK_NOT_FOUND).message = N_other
  /\ ErrorNamed(doc.errors, N_BLOCK_NOT_FOUND).message = N_message
  /\ ErrorNamed(doc.errors, N_CLASS_HASH_NOT_FOUND).message = N_other
  /\ Len(doc.methods) = 2
  /\ doc.methods[1].name = N_starknet_ \o N_call
  /\ doc.methods[2].name = N_starknet_ \o N_chainId

(***************************************************************************)
(* Determinism.                                                            *)
(***************************************************************************)
\* What a finished run has written, given the resolution.
OutputOf(prof, resolved) ==
  HeaderLines(prof) \o ReportLines(resolved) \o TypeLines(resolved) \o SerdeLines(resolved)

\* What a run that resolves with the given vector ends with: its output
\* lines, and the error if it aborts.
RunOutcome(prof, resolution) ==
  IF resolution.ok
    THEN [lines |-> OutputOf(prof, resolution.v), err |-> ""]
    ELSE [lines |-> HeaderLines(prof), err |-> resolution.err]

\* C13: a run that has ended wrote what every run on the same documents,
\* policy and tables writes, whatever the order the flatten-only names
\* come out of the hash set in.
C13_Deterministic ==
  pc \in {"done", "aborted"} =>
    \A vec \in FlattenOnlyVectors(doc, profile.flatten_options) :
      RunOutcome(profile, resolve_types(doc, profile, vec))
        = [lines |-> out, err |-> result.err]

\* A finished run with two flatten-only names, so two iteration orders.
C13_Witness ==
  /\ pc = "done"
  /\ Cardinality(FlattenOnlyVectors(doc, profile.flatten_options)) = 2
  /\ Len(out) > 3

(***************************************************************************)
(* Request types.                                                          *)
(***************************************************************************)
\* The request type the claim expects of a method.
IsRequestOf(rust_type, method) ==
  IF method.params = <<>>
    THEN rust_type.content = RustUnit(TRUE)
    ELSE /\ rust_type.content.kind = "Struct"
         /\ rust_type.content.serde_as_array
         /\ rust_type.content.extra_ref_type
         /\ Len(rust_type.content.fields) = Len(method.params)
         /\ \A k \in 1..Len(method.params) :
              /\ rust_type.content.fields[k].name = method.params[k].name
              /\ rust_type.content.fields[k].optional = ~method.params[k].required

\* C14: the resolution holds one request type per method of the merged
\* list: an array-encoded Unit for a method without parameters, else an
\* array-encoded struct with a borrowed view whose field i is parameter i.
C14_OneRequestPerMethod ==
  ResolveSucceeded =>
    /\ Len(result.v.request_response_types) = Len(doc.methods)
    /\ \E match \in IterationOrders(1..Len(doc.methods)) :
         \A i \in 1..Len(doc.methods) :
           IsRequestOf(result.v.request_response_types[match[i]], doc.methods[i])

\* A resolution of a core method with two parameters and a write method
\* with none.
C14_Witness ==
  /\ ResolveSucceeded
  /\ Len(doc.methods) = 2
  /\ Len(doc.methods[1].params) = 2
  /\ doc.methods[2].params = <<>>
  /\ Len(result.v.request_response_types) = 2

(***************************************************************************)
(* The error enum.                                                         *)
(***************************************************************************)
EnumTypes(resolved) ==
  {i \in 1..Len(resolved.model_types) : resolved.model_types[i].content.kind = "Enum"}
ErrorEnums(resolved) ==
  {i \in EnumTypes(resolved) : resolved.model_types[i].content.thiserror}

\* C15: a resolution holds one error enum, with one variant per error name
\* of the merged map that carries the error's message text; the variants
\* of an error enum all have message text, those of another enum have none.
C15_ErrorEnumCarriesMessages ==
  ResolveSucceeded =>
    /\ Cardinality(ErrorEnums(result.v)) = 1
    /\ \A e \in ErrorEnums(result.v) :
         LET variants == result.v.model_types[e].content.variants
         IN /\ Len(variants) = Len(doc.errors)
            /\ \A i \in 1..Len(doc.errors) :
                 /\ variants[i].name = to_starknet_rs_name(doc.errors[i][1])
                 /\ variants[i].error_text = Some(doc.errors[i][2].message)
    /\ \A e \in EnumTypes(result.v) :
         \A i \in 1..Len(result.v.model_types[e].content.variants) :
           result.v.model_types[e].content.variants[i].error_text.some
             = result.v.model_types[e].content.thiserror

\* A resolution of two merged errors next to an enum made of a string
\* schema.
C15_Witness ==
  /\ ResolveSucceeded
  /\ Len(doc.errors) = 2
  /\ Cardinality(EnumTypes(result.v)) = 2
  /\ Cardinality(ErrorEnums(result.v)) = 1

(***************************************************************************)
(* Output of a run that aborts.                                            *)
(***************************************************************************)
\* C16: a run that ends in a fatal abort has written nothing to standard
\* output.
C16_NoOutputOnAbort ==
  pc = "aborted" => out = <<>>

(***************************************************************************)
(* References to absent schemas.                                           *)
(***************************************************************************)
ParamReferences(specs) ==
  UNION {UNION {References(specs.methods[i].params[j].schema, "param") :
                  j \in 1..Len(specs.methods[i].params)} :
           i \in 1..Len(specs.methods)}

Dangling(specs) ==
  {r \in DocReferences(specs) \cup ParamReferences(specs) :
     \A i \in 1..Len(specs.schemas) : specs.schemas[i][1] # r.name}

\* C17: when any reference of the document names an absent schema,
\* resolve_types fails, wherever the reference occurs.
C17_DanglingReferenceFails ==
  (ResolveActed /\ Dangling(doc) # {}) => ~result.ok

(***************************************************************************)
(* The codec of a Unit type.                                               *)
(***************************************************************************)
\* C18: the emitted codec of a Unit type encodes to an empty array, decodes
\* an empty array successfully, and returns a decode error for every
\* non-empty array.
C18_UnitIsEmptyArray ==
  ty.kind = "Unit" =>
    /\ op = "serialized" => wire = JArray(<<>>)
    /\ (op \in {"decoded_serialized", "decoded_received"} /\ wire = JArray(<<>>))
         => res = Ok(<<>>)
    /\ (op = "decoded_received" /\ wire.kind = "array" /\ wire.elems # <<>>)
         => ~res.ok

\* A Unit sent an array of two nulls, which reads as a vector of two units,
\* and refuses it.
C18_Witness ==
  /\ ty = RustUnit(TRUE)
  /\ op = "decoded_received"
  /\ wire = JArray(<< JNull, JNull >>)
  /\ ~res.ok

(***************************************************************************)
(* The type of a field: get_rust_type_for_field on the schema of a method  *)
(* parameter, which may be any schema node.                                *)
(***************************************************************************)
\* Deepest nesting of arrays around a schema node.
MaxDepth == 3

\* The nodes at the bottom of the arrays.
LeafSchemas ==
  { SRef(N_FELT), SRef(N_A), SRef(N_B),
    SInteger, SBoolean, SString(None, None), SString(None, Some(T_base64)),
    SString(Some(<< N_DECLARE >>), None),
    SOneOf(<< SInteger, SBoolean >>), SOneOf(<< SRef(N_A) >>),
    SAllOf(<< SRef(N_A) >>), SAllOf(<< SObject(<< <<N_x, SInteger>> >>, None) >>),
    SObject(<<>>, None), SObject(<< <<N_x, SInteger>> >>, Some({N_x})) }

RECURSIVE Nested(_, _)
Nested(leaf, depth) == IF depth = 0 THEN leaf ELSE SArray(Nested(leaf, depth - 1))

FieldSchemas == {Nested(leaf, depth) : leaf \in LeafSchemas, depth \in 0..MaxDepth}

\* The components the references are looked up in: B is never defined.
FieldSchemaMaps ==
  { <<>>,
    << <<N_FELT, SString(None, None)>> >>,
    << <<N_FELT, SString(None, None)>>, <<N_A, SObject(<< <<N_x, SInteger>> >>, None)>> >> }

FieldTypesInit ==
  /\ \E schemas \in FieldSchemaMaps, schema \in FieldSchemas, required \in BOOLEAN :
       doc = Specification(schemas,
               [methods |-> << [name |-> N_starknet_ \o N_call,
                                params |-> << [name |-> N_request, schema |-> schema,
                                               required |-> required] >>] >>,
                errors |-> <<>>])
  /\ write_specs = <<>> /\ profile = <<>> /\ result = <<>> /\ out = <<>>
  /\ pc = "param"
  /\ nm_in = <<>> /\ nm_once = <<>> /\ nm_twice = <<>> /\ nm_field = <<>> /\ nm_pc = "idle"
  /\ ty = <<>> /\ val = NoValue /\ wire = NoWire /\ res = NoResult /\ op = "idle"

\* get_rust_type_for_field(&param.schema, specs) (main.rs 1545).
GetFieldType ==
  /\ pc = "param"
  /\ result' = get_rust_type_for_field(doc.methods[1].params[1].schema, doc)
  /\ pc' = "typed"
  /\ UNCHANGED << doc, write_specs, profile, out, names_vars, codec_vars >>

FieldTypesNext == GetFieldType

SpecFieldTypes == FieldTypesInit /\ [][FieldTypesNext]_vars

AnonymousComposite(schema) == schema.kind \in {"OneOf", "AllOf", "Object"}

\* The node under the arrays of a schema, the schema itself without any.
RECURSIVE ItemsOf(_)
ItemsOf(schema) == IF schema.kind = "Array" THEN ItemsOf(schema.item) ELSE schema

RECURSIVE ArrayDepth(_)
ArrayDepth(schema) == IF schema.kind = "Array" THEN 1 + ArrayDepth(schema.item) ELSE 0

\* C19: get_rust_type_for_field returns an error, never a type, for an
\* anonymous oneOf, allOf or Object, as the field's own schema and as the
\* item schema of an Array at any nesting depth.
C19_AnonymousCompositeRefused ==
  (pc = "typed" /\ AnonymousComposite(ItemsOf(doc.methods[1].params[1].schema)))
  => (~result.ok /\ ~result.panic)

\* An anonymous object two arrays down, refused.
C19_Witness ==
  /\ pc = "typed"
  /\ ArrayDepth(doc.methods[1].params[1].schema) = 2
  /\ ItemsOf(doc.methods[1].params[1].schema).kind = "Object"
  /\ ~result.ok

(***************************************************************************)
(* Termination of type resolution.                                         *)
(***************************************************************************)
\* The documents whose references all name A or B, the two schemas that
\* may refer to each other and to themselves, with an empty write document.
ClosedSpecs ==
  {raw_specs \in RawSpecs :
     /\ \A r \in DocReferences(raw_specs.main) \cup ParamReferences(raw_specs.main) :
          r.name \in {N_A, N_B}
     /\ SchemaNames(raw_specs.main) \subseteq {N_A, N_B}
     /\ raw_specs.write.errors = <<>>
     /\ raw_specs.write.methods = <<>>}

\* Every fragment flattened, or none.
LiveProfiles ==
  {GenerationProfile(FlattenAll, {}), GenerationProfile(FlattenSelected({}), {})}

LiveInit ==
  /\ \E raw_specs \in ClosedSpecs : doc = raw_specs.main /\ write_specs = raw_specs.write
  /\ profile \in LiveProfiles
  /\ result = <<>> /\ out = <<>> /\ pc = "parsed"
  /\ nm_in = <<>> /\ nm_once = <<>> /\ nm_twice = <<>> /\ nm_field = <<>> /\ nm_pc = "idle"
  /\ ty = <<>> /\ val = NoValue /\ wire = NoWire /\ res = NoResult /\ op = "idle"

\* The positions main can be at after each position it leaves; a run ends
\* at done, aborted or overflowed.
AfterOf(position) ==
  CASE position = "parsed" -> {"loaded"}
    [] position = "loaded" -> {"header"}
    [] position = "header" -> {"resolved", "aborted", "overflowed"}
    [] position = "resolved" -> {"reported"}
    [] position = "reported" -> {"rendered"}
    [] position = "rendered" -> {"done", "aborted"}
    [] OTHER -> {}

\* main moving on from where it is: what every step of Next does.
Advance == pc' \in AfterOf(pc)

\* A run of the generator whose one thread keeps going until the process
\* ends.
LiveSpec == LiveInit /\ [][Next]_vars /\ WF_pc(Advance)

\* C20: for every document, one with a cycle of references included, type
\* resolution eventually finishes: it returns a result or aborts with a
\* diagnostic.
C20_ResolutionFinishes ==
  (pc = "header") ~> (pc \in {"resolved", "aborted"})

(***************************************************************************)
(* The fields of an allOf.                                                 *)
(***************************************************************************)
\* The model type made for a schema name.
TypeFor(resolved, name) ==
  resolved.model_types[CHOOSE i \in 1..Len(resolved.model_types) :
                         /\ resolved.model_types[i].name = to_starknet_rs_name(name)
                         /\ i \notin ErrorEnums(resolved)]

\* Fields as extraction left them, before the fixed and shared-ownership
\* tables marked them.
Unmarked(fields) ==
  [k \in 1..Len(fields) |-> [fields[k] EXCEPT !.fixed = None, !.arc_wrap = FALSE]]

\* What one fragment is said to contribute: the one flatten field of a
\* reference that is not designated, the target's fields of one that is,
\* the fragment's own fields otherwise.
Contribution(fragment, specs, flatten_option) ==
  IF fragment.kind = "Ref" /\ ~Designated(flatten_option, fragment.name)
    THEN << [ name |-> to_lowercase(fragment.name), optional |-> FALSE, fixed |-> None,
              arc_wrap |-> FALSE, type_name |-> to_starknet_rs_name(fragment.name),
              serde_rename |-> None, serde_faltten |-> TRUE, serializer |-> None ] >>
  ELSE IF fragment.kind = "Ref"
    THEN get_schema_fields(SchemaOf(specs, fragment.name), specs, <<>>, flatten_option,
                           {fragment.name}).v
  ELSE get_schema_fields(fragment, specs, <<>>, flatten_option, {}).v

RECURSIVE Contributions(_, _, _, _)
Contributions(fragments, i, specs, flatten_option) ==
  IF i > Len(fragments) THEN <<>>
  ELSE Contribution(fragments[i], specs, flatten_option)
         \o Contributions(fragments, i + 1, specs, flatten_option)

\* The field names the properties of an Object give, in property order.
PropertyNames(props) == [k \in 1..Len(props) |-> to_rust_field_name(props[k][1])]

\* C21: the fields of an emitted allOf are the contributions of its
\* fragments in fragment order, and the fields of an emitted Object are
\* its properties in property order.
C21_FragmentsInOrder ==
  ResolveSucceeded =>
    \A i \in 1..Len(doc.schemas) :
      EmittedFor(result.v, doc.schemas[i][1]) =>
        /\ doc.schemas[i][2].kind = "AllOf" =>
             Unmarked(TypeFor(result.v, doc.schemas[i][1]).content.fields)
               = Contributions(doc.schemas[i][2].items, 1, doc, profile.flatten_options)
        /\ doc.schemas[i][2].kind = "Object" =>
             NamesOf(TypeFor(result.v, doc.schemas[i][1]).content.fields)
               = PropertyNames(doc.schemas[i][2].props)

\* An allOf of a designated reference to an Object of two properties and a
\* reference that is not designated: three fields, the flatten field last.
C21_Witness ==
  /\ ResolveSucceeded
  /\ \E i \in 1..Len(doc.schemas) :
       /\ doc.schemas[i][2] = SAllOf(<< SRef(N_EVENT), SRef(N_A) >>)
       /\ Designated(profile.flatten_options, N_EVENT)
       /\ ~Designated(profile.flatten_options, N_A)
       /\ EmittedFor(result.v, doc.schemas[i][1])
       /\ Len(TypeFor(result.v, doc.schemas[i][1]).content.fields) = 3
       /\ TypeFor(result.v, doc.schemas[i][1]).content.fields[3].serde_faltten

(***************************************************************************)
(* Sorting before rendering.                                               *)
(***************************************************************************)
Sorted(names) ==
  \A i \in 1..Len(names) : \A j \in (i + 1)..Len(names) : ~StrLess(names[j], names[i])

StructTypes(types) == {i \in 1..Len(types) : types[i].content.kind = "Struct"}

\* C22 as stated: the emitted types are sorted by name, and so are the
\* fields of each struct.
C22_TypesAndFieldsSorted ==
  ResolveSucceeded =>
    /\ Sorted(NamesOf(result.v.model_types))
    /\ Sorted(NamesOf(result.v.request_response_types))
    /\ \A i \in StructTypes(RenderOrder(result.v)) :
         Sorted(NamesOf(RenderOrder(result.v)[i].content.fields))

\* C22 amended: the model types, the request types and the names that are
\* not implemented are each sorted by name; the fields of a struct are
\* left in extraction order, those of a request in parameter order.
C22_TypesSortedFieldsAsExtracted ==
  ResolveSucceeded =>
    /\ Sorted(NamesOf(result.v.model_types))
    /\ Sorted(NamesOf(result.v.request_response_types))
    /\ Sorted(result.v.not_implemented)
    /\ \A i \in StructTypes(result.v.request_response_types) :
         \E k \in 1..Len(doc.methods) :
           NamesOf(result.v.request_response_types[i].content.fields)
             = NamesOf(doc.methods[k].params)

\* Three schemas whose types come out in another order than the document
\* has them, next to a request whose fields are not in name order.
C22_Witness ==
  /\ ResolveSucceeded
  /\ Len(doc.schemas) = 3
  /\ doc.schemas[1][1] = N_EVENT
  /\ EmittedFor(result.v, N_EVENT)
  /\ result.v.model_types[1].name = to_starknet_rs_name(N_A)
  /\ \E i \in StructTypes(result.v.request_response_types) :
       ~Sorted(NamesOf(result.v.request_response_types[i].content.fields))

(***************************************************************************)
(* The type of an Array field.                                             *)
(***************************************************************************)
\* The type of the items of the parameter's schema, an Array.
ItemType == get_rust_type_for_field(doc.methods[1].params[1].schema.item, doc)

\* C23: for an Array whose items have a type, get_rust_type_for_field
\* returns the sequence of the item type, with the sequence of the item's
\* codec as override when the item has one, and with none when it has none.
C23_ArrayInheritsCodec ==
  (pc = "typed" /\ doc.methods[1].params[1].schema.kind = "Array" /\ ItemType.ok)
  => /\ result.ok
     /\ result.v.type_name = VecOf(ItemType.v.type_name)
     /\ result.v.serializer.some = ItemType.v.serializer.some
     /\ ItemType.v.serializer.some =>
          result.v.serializer.v.codec = VecOf(ItemType.v.serializer.v.codec)

\* The same, for the items whose codec is one of the override table (a
\* serde_as codec) or that have none.
C23_ArrayInheritsSerdeAs ==
  ( /\ pc = "typed" /\ doc.methods[1].params[1].schema.kind = "Array" /\ ItemType.ok
    /\ ~(ItemType.v.serializer.some /\ ItemType.v.serializer.v.kind = "Serde") )
  => /\ result.ok
     /\ result.v.type_name = VecOf(ItemType.v.type_name)
     /\ result.v.serializer.some = ItemType.v.serializer.some
     /\ ItemType.v.serializer.some =>
          result.v.serializer.v = SerdeAs(VecOf(ItemType.v.serializer.v.codec))

(***************************************************************************)
(* Which types get an explicit encode/decode block.                        *)
(***************************************************************************)
Written(k, name) == \E i \in 1..Len(out) : out[i] = Line(k, name)

\* The types said to need a block: an array-encoded struct, a struct with
\* a fixed field, an array-encoded Unit.
NeedsBlock(rust_type) ==
  \/ /\ rust_type.content.kind = "Struct"
     /\ \/ rust_type.content.serde_as_array
        \/ \E k \in 1..Len(rust_type.content.fields) : rust_type.content.fields[k].fixed.some
  \/ rust_type.content.kind = "Unit" /\ rust_type.content.serde_as_array

\* C24: in a finished run a type has an explicit encode/decode block
\* exactly when it is an array-encoded struct, a struct with a fixed field
\* or an array-encoded Unit; exactly those definitions do not derive
\* serialization; an enum never has a block.
C24_BlockIffArrayOrFixed ==
  pc = "done" =>
    \A i \in 1..Len(RenderOrder(result.v)) :
      LET rust_type == RenderOrder(result.v)[i]
      IN /\ Written("serde", rust_type.name) <=> NeedsBlock(rust_type)
         /\ Written("derive", rust_type.name) <=> NeedsBlock(rust_type)
         /\ Written("derive_serde", rust_type.name) <=> ~NeedsBlock(rust_type)
         /\ rust_type.content.kind = "Enum" => ~Written("serde", rust_type.name)

\* A finished run with a struct that has a fixed field and is not
\* array-encoded, a request struct, a request Unit and an enum.
C24_Witness ==
  /\ pc = "done"
  /\ \E i \in StructTypes(result.v.model_types) :
       /\ \E k \in 1..Len(result.v.model_types[i].content.fields) :
            result.v.model_types[i].content.fields[k].fixed.some
       /\ Written("serde", result.v.model_types[i].name)
  /\ \E i \in StructTypes(result.v.model_types) :
       Written("derive_serde", result.v.model_types[i].name)
  /\ \E i \in 1..Len(result.v.request_response_types) :
       result.v.request_response_types[i].content.kind = "Unit"
  /\ StructTypes(result.v.request_response_types) # {}

(***************************************************************************)
(* The order of the output.                                                *)
(***************************************************************************)
Positions(k) == {i \in 1..Len(out) : out[i].k = k}
NamesWritten(k) == NamesOf(SelectSeq(out, LAMBDA l : l.k = k))
Before(earlier, later) == \A i \in earlier : \A j \in later : i < j

\* C25: the output of a successful run has the header first, then the
\* not-implemented list, then the definitions of the model types followed
\* by those of the request types, then the custom blocks: one per type
\* that needs one, in the order of the definitions, none before a
\* definition.
C25_OutputOrder ==
  pc = "done" =>
    /\ out[1].k = "header"
    /\ Before(Positions("header"), Positions("not_implemented"))
    /\ Before(Positions("not_implemented"), Positions("type"))
    /\ Before(Positions("type"), Positions("serde"))
    /\ NamesWritten("not_implemented") = result.v.not_implemented
    /\ NamesWritten("type")
         = NamesOf(result.v.model_types) \o NamesOf(result.v.request_response_types)
    /\ NamesWritten("serde")
         = NamesOf(SelectSeq(result.v.model_types, NeedsBlock))
             \o NamesOf(SelectSeq(result.v.request_response_types, NeedsBlock))

\* A finished run with a name that is not implemented, model types,
\* request types, and blocks for a model type and for two request types.
C25_Witness ==
  /\ pc = "done"
  /\ Positions("not_implemented") # {}
  /\ Len(result.v.model_types) >= 2
  /\ Len(result.v.request_response_types) = 2
  /\ Cardinality(Positions("serde")) = 3

(***************************************************************************)
(* The abort of render_serde_stdout.                                       *)
(***************************************************************************)
\* C26: render_serde_stdout is invoked only on types for which
\* need_custom_serde holds, which are structs or units, so that its abort
\* for another kind of type is never reached: a run whose resolution
\* succeeded ends at done.
C26_SerdeAbortUnreachable ==
  /\ pc = "aborted" => ~result.ok
  /\ pc \in {"rendered", "done"} =>
       \A i \in 1..Len(manual_serde_types(result.v)) :
         /\ need_custom_serde(manual_serde_types(result.v)[i])
         /\ manual_serde_types(result.v)[i].content.kind \in {"Struct", "Unit"}

\* A finished run that rendered the blocks of a struct and of a Unit, with
\* two enums among its types.
C26_Witness ==
  /\ pc = "done"
  /\ \E i \in 1..Len(manual_serde_types(result.v)) :
       manual_serde_types(result.v)[i].content.kind = "Struct"
  /\ \E i \in 1..Len(manual_serde_types(result.v)) :
       manual_serde_types(result.v)[i].content.kind = "Unit"
  /\ Cardinality(EnumTypes(result.v)) = 2

(***************************************************************************)
(* Array encoding against fixed and shared-ownership fields.               *)
(***************************************************************************)
Marked(field) == field.fixed.some \/ field.arc_wrap

\* C27: in a resolution no struct is array-encoded and holds a fixed or
\* shared-ownership field: a model struct is never array-encoded, and a
\* request struct is array-encoded with no field marked.  The members the
\* array codec refers to are then those of the definition.
C27_ArrayEncodedNeverMarked ==
  ResolveSucceeded =>
    /\ \A i \in StructTypes(result.v.model_types) :
         ~result.v.model_types[i].content.serde_as_array
    /\ \A i \in StructTypes(result.v.request_response_types) :
         LET st == result.v.request_response_types[i].content
         IN /\ st.serde_as_array
            /\ \A k \in 1..Len(st.fields) : ~Marked(st.fields[k])
            /\ NotFixed(st.fields) = [k \in 1..Len(st.fields) |-> k]
    /\ \A i \in StructTypes(RenderOrder(result.v)) :
         LET st == RenderOrder(result.v)[i].content
         IN ~(st.serde_as_array /\ \E k \in 1..Len(st.fields) : Marked(st.fields[k]))

\* A resolution with a model struct that holds a fixed field, one that
\* holds a shared-ownership field, and a request struct.
C27_Witness ==
  /\ ResolveSucceeded
  /\ \E i \in StructTypes(result.v.model_types) :
       \E k \in 1..Len(result.v.model_types[i].content.fields) :
         result.v.model_types[i].content.fields[k].fixed.some
  /\ \E i \in StructTypes(result.v.model_types) :
       \E k \in 1..Len(result.v.model_types[i].content.fields) :
         result.v.model_types[i].content.fields[k].arc_wrap
  /\ StructTypes(result.v.request_response_types) # {}

(***************************************************************************)
(* The names of the emitted types.                                         *)
(***************************************************************************)
Distinct(names) ==
  \A i \in 1..Len(names) : \A j \in 1..Len(names) : i # j => names[i] # names[j]

\* C28: in a resolution of a document whose schema names and method names
\* are pairwise distinct, the emitted types, model and request types
\* together, have pairwise distinct names.
C28_TypeNamesDistinct ==
  ( /\ ResolveSucceeded
    /\ Distinct([i \in 1..Len(doc.schemas) |-> doc.schemas[i][1]])
    /\ Distinct(NamesOf(doc.methods)) )
  => Distinct(NamesOf(RenderOrder(result.v)))

(***************************************************************************)
(* Field types against the schemas elided as flatten-only.                 *)
(***************************************************************************)
\* The type under the Option and Vec wrappers of a field type.
RECURSIVE Unwrapped(_)
Unwrapped(type_name) ==
  IF IsOptionType(type_name) THEN Unwrapped(InnerType(type_name))
  ELSE IF Len(type_name) > Len(T_VecOpen) /\ MatchesAt(type_name, T_VecOpen, 1)
    THEN Unwrapped(SubSeq(type_name, Len(T_VecOpen) + 1, Len(type_name) - 1))
  ELSE type_name

\* Whether a field of one of the types names a schema that is elided as
\* flatten-only.
NamesElided(types, specs, flatten_option) ==
  \E i \in StructTypes(types) :
    \E k \in 1..Len(types[i].content.fields) :
      \E name \in get_flatten_only_schemas(specs, flatten_option) :
        Unwrapped(types[i].content.fields[k].type_name) = to_starknet_rs_name(name)

\* C29: in a resolution no field of an emitted type, model struct or
\* request struct, has a type that names a schema elided as flatten-only.
C29_NoFieldNamesElided ==
  ResolveSucceeded =>
    ~NamesElided(RenderOrder(result.v), doc, profile.flatten_options)

\* The same for the model structs alone, whose fields come from the
\* schemas the analyzer visits.
C29_NoModelFieldNamesElided ==
  ResolveSucceeded =>
    ~NamesElided(result.v.model_types, doc, profile.flatten_options)

(***************************************************************************)
(* The optional flag and the option wrapping of a field.                   *)
(***************************************************************************)
\* Whether the flag of a field agrees with its type and its codec.
FlagAgrees(field) ==
  /\ field.optional <=> IsOptionType(field.type_name)
  /\ field.serializer.some /\ field.serializer.v.kind = "SerdeAs"
       => (field.optional <=> IsOptionType(field.serializer.v.codec))

\* Whether every field of every struct among the types is consistent.
FlagsAgree(types) ==
  \A i \in StructTypes(types) :
    \A k \in 1..Len(types[i].content.fields) :
      FlagAgrees(types[i].content.fields[k])

\* C30: in a resolution the optional flag of every field, of a model struct
\* or of a request struct, is set exactly when its type (and its codec, if
\* any) is option-wrapped.
C30_OptionalIffOptionWrapped ==
  ResolveSucceeded => FlagsAgree(RenderOrder(result.v))

\* The same for the model structs alone, whose fields come from Object
\* properties and fragments.
C30_ModelOptionalIffOptionWrapped ==
  ResolveSucceeded => FlagsAgree(result.v.model_types)

\* A model struct holds an optional field, so the model half is exercised.
C30_ModelOptionalSeen ==
  /\ ResolveSucceeded
  /\ \E i \in StructTypes(result.v.model_types) :
       \E k \in 1..Len(result.v.model_types[i].content.fields) :
         result.v.model_types[i].content.fields[k].optional

====
